---- MODULE Spec2Model ----
(***************************************************************************)
(* HeyGen API client (src/heygen_mcp/client.py): one logical client call   *)
(* as a state machine over its suspension points (the HTTP await and the   *)
(* tenacity back-off sleep), followed by the mapping of the raw response   *)
(* or of the raised exception into the MCP response object.  On top of it, *)
(* the MCP tools of src/heygen_mcp/server.py: each tool call obtains the   *)
(* client singleton, validates its parameters and delegates to one client  *)
(* operation.                                                              *)
(***************************************************************************)
EXTENDS Integers, Sequences, FiniteSets, TLC

VARIABLES
    cfg,             \* the client's configuration, fixed at construction
    pc,              \* "idle", "inflight" (awaiting the HTTP call),
                     \* "sleeping" (tenacity back-off) or "done"
    op,              \* the client operation being executed
    arg,             \* its id / file_path argument
    attempt_number,  \* tenacity's retry_state.attempt_number
    attempts,        \* HTTP requests issued by this call
    sleeps,          \* back-off delays slept by this call, in order
    warnings,        \* before_sleep warning logs emitted by this call
    outcomes,        \* what the upstream did to each attempt, in order
    response,        \* the outcome of the latest attempt, in full
    result,          \* the MCP response object returned, once done
    request_body,    \* the JSON body the call posts, where the model tracks it
    env_api_key,     \* the HEYGEN_API_KEY environment variable is set
    api_client,      \* server.py's _api_client singleton exists
    tool,            \* the tool call being served, if the call came through one
    calls,           \* the retry state of each of two concurrent client calls
    singleton,       \* server.py's _api_client, when instances are told apart
    instances,       \* the state of every HeyGenApiClient created so far
    tasks            \* where each concurrent server coroutine stands

vars == <<cfg, pc, op, arg, attempt_number, attempts, sleeps, warnings,
          outcomes, response, result, request_body, env_api_key, api_client,
          tool, calls, singleton, instances, tasks>>

\* the state of server.py around the client
servervars == <<env_api_key, api_client, tool>>

\* the state that only the specifications of concurrent coroutines use
concvars == <<calls, singleton, instances, tasks>>

(***************************************************************************)
(* Python values.  Optional[T] is a sequence of length 0 (None) or 1.      *)
(***************************************************************************)
None == <<>>

Some(v) == <<v>>

Min(a, b) == IF a <= b THEN a ELSE b

Max(a, b) == IF a >= b THEN a ELSE b

\* s[:n] on a Python str
Prefix(s, n) == IF Len(s) <= n THEN s ELSE SubSeq(s, 1, n)

\* `sub in s` on Python strs
Contains(s, sub) ==
    \E i \in 1..(Len(s) - Len(sub) + 1) : SubSeq(s, i, i + Len(sub) - 1) = sub

(***************************************************************************)
(* Module constants of client.py                                           *)
(***************************************************************************)
RETRY_MAX_ATTEMPTS == 3

RETRY_MIN_WAIT_SECONDS == 1

RETRY_MAX_WAIT_SECONDS == 10

\* the retryable set with 404 wrongly added to it
RetryableStatusCodesWith404 == {404, 408, 429, 500, 502, 503, 504}

RETRYABLE_STATUS_CODES == {408, 429, 500, 502, 503, 504}

\* response.text[:200]
TEXT_EXCERPT_LEN == 200

\* data.voices[:100]
VOICES_LIMIT == 100

\* data.remaining_quota / 60
QUOTA_DIVISOR == 60

(***************************************************************************)
(* Bounds of the model                                                     *)
(***************************************************************************)
\* largest max_retries a client is constructed with
MaxRetriesCfg == 3

\* largest |remaining_quota| of a quota body
MaxQuota == 130

\* longest upstream voice list
MaxVoices == 102

\* length of the longest response body of a non-2xx response
MaxBodyLen == 210

(***************************************************************************)
(* Client configuration: HeyGenApiClient.__init__                          *)
(***************************************************************************)
DefaultConfig ==
    [max_retries    |-> RETRY_MAX_ATTEMPTS,
     retry_min_wait |-> RETRY_MIN_WAIT_SECONDS,
     retry_max_wait |-> RETRY_MAX_WAIT_SECONDS]

\* <<retry_min_wait, retry_max_wait>> pairs a client is constructed with:
\* the defaults, a low cap, and a floor above the cap (the constructor
\* checks neither)
WaitPairs ==
    {<<RETRY_MIN_WAIT_SECONDS, RETRY_MAX_WAIT_SECONDS>>,
     <<RETRY_MIN_WAIT_SECONDS, 2>>,
     <<3, 2>>}

Configs ==
    {DefaultConfig} \cup
    {[max_retries    |-> n,
      retry_min_wait |-> w[1],
      retry_max_wait |-> w[2]] : n \in 0..MaxRetriesCfg, w \in WaitPairs}

(***************************************************************************)
(* The public operations of HeyGenApiClient                                *)
(***************************************************************************)
\* operations mapped by _handle_api_request
HandledOps ==
    {"get_remaining_credits", "get_voices", "list_avatar_groups",
     "get_avatars_in_group", "list_avatars", "get_avatar_details",
     "generate_avatar_video", "list_templates", "get_template_details",
     "generate_video_from_template", "list_assets", "list_folders"}

\* operations with their own try/except around _make_request
OwnHandlerOps ==
    {"get_user_info", "get_video_status", "delete_asset", "create_folder",
     "update_folder", "trash_folder", "restore_folder"}

\* operations that go through _make_request_with_retry
JsonOps == HandledOps \cup OwnHandlerOps

Ops == JsonOps \cup {"upload_asset"}

\* client operations that server.py calls and models/video.py declares the
\* responses of, whose bodies client.py does not hold
DeclaredOps == {"list_videos", "generate_avatar_iv_video"}

\* operations whose requests run under the retry policy
RetryOps == JsonOps \cup DeclaredOps

\* operations whose Result echoes the id they were called with
IdOps == {"delete_asset", "update_folder", "trash_folder", "restore_folder"}

Ids == {"id-1", "id-2"}

\* upload_asset's file_path: a file that exists and one that does not
ExistingPath == "/media/photo.png"

MissingPath == "/media/missing.png"

Args(o) ==
    IF o \in IdOps THEN Ids
    ELSE IF o = "upload_asset" THEN {ExistingPath, MissingPath}
    ELSE {""}

(***************************************************************************)
(* The upstream: what one HTTP attempt can observe                         *)
(***************************************************************************)
\* representative non-retryable statuses, next to the retryable ones
Statuses == {200, 401, 404} \cup RETRYABLE_STATUS_CODES

Is2xx(status) == status >= 200 /\ status <= 299

\* fifty characters of a response body
BodyChunk == "01234567890123456789012345678901234567890123456789"

\* a response body of n <= 300 characters
BodyText(n) ==
    Prefix(BodyChunk \o BodyChunk \o BodyChunk \o BodyChunk \o BodyChunk \o BodyChunk, n)

\* a response body longer than the excerpt the client cuts out of it
LongErrorText == BodyText(MaxBodyLen)

\* response.text of a non-2xx response
ErrorTexts == {"Service Unavailable", LongErrorText}

\* str(exc) of an httpx.TimeoutException; httpx.AsyncClient timeouts
\* usually carry an empty message
TimeoutMessages == {"", "The read operation timed out"}

\* str(exc) of a non-timeout httpx.RequestError (ConnectError, ...)
NetworkMessages == {"All connection attempts failed"}

\* error strings a 2xx body may carry
UpstreamErrors == {None, Some(""), Some("avatar quota exceeded")}

\* a dict JSON object over a fixed universe of keys; None marks an absent key
DictKeys == {"video_id", "task_id", "video_url", "status", "trace_id"}

\* a JSON string / a JSON number, as a member of a Dict[str, Any]
JsonStr(v) == [type |-> "str", value |-> v]

JsonInt(v) == [type |-> "int", value |-> v]

Dict(present) ==
    [k \in DictKeys |-> IF k \in DOMAIN present THEN Some(JsonStr(present[k])) ELSE None]

\* {}
EmptyDict == [k \in DictKeys |-> None]

\* a dict whose video_id is a JSON number
NumericIdDict == [EmptyDict EXCEPT !["video_id"] = Some(JsonInt(12345))]

\* d.get(k)
DictGet(d, k) == d[k]

\* bool(d) of a dict
DictTruthy(d) == \E k \in DictKeys : d[k] # None

\* remaining_quota values of the client-call specification
QuotaSamples == {-61, -1, 0, 59, 60, 125}

\* the upstream list of n voices, in upstream order (ascending or descending ids)
VoiceList(n, ascending) == [i \in 1..n |-> IF ascending THEN i ELSE n + 1 - i]

\* voice lists of the client-call specification
VoiceListSamples == {VoiceList(0, TRUE), VoiceList(2, FALSE)}

\* the `data` member of a schema-valid 2xx body, per operation
DataValues(o) ==
    CASE o = "get_remaining_credits" ->
            {[remaining_quota |-> v] : v \in QuotaSamples}
      [] o = "get_user_info" ->
            {[username |-> Some("alice"), email |-> Some("alice@example.com"),
              first_name |-> None, last_name |-> None],
             [username |-> None, email |-> None,
              first_name |-> None, last_name |-> None]}
      [] o = "get_voices" ->
            {[voices |-> l] : l \in VoiceListSamples}
      [] o = "list_avatar_groups" ->
            {[total_count |-> 0, avatar_group_list |-> <<>>],
             [total_count |-> 1, avatar_group_list |-> <<"group-1">>]}
      [] o = "get_avatars_in_group" ->
            {[avatar_list |-> <<>>], [avatar_list |-> <<"avatar-1">>]}
      [] o = "list_avatars" ->
            {[avatars |-> <<>>], [avatars |-> <<"avatar-1", "avatar-2">>]}
      [] o = "get_avatar_details" ->
            {[avatar_id |-> Some("avatar-1")], [avatar_id |-> None]}
      [] o = "generate_avatar_video" ->
            {EmptyDict, Dict([trace_id |-> "trace-1"]),
             Dict([video_id |-> "video-1"]), NumericIdDict,
             Dict([video_id |-> "video-1", status |-> "processing"])}
      [] o = "list_videos" ->
            {[videos |-> <<>>, token |-> None],
             [videos |-> <<"video-1", "video-2">>, token |-> Some("next")]}
      [] o = "generate_avatar_iv_video" ->
            {[video_id |-> "video-1"]}
      [] o = "get_video_status" ->
            {[id |-> "video-1", status |-> "completed", duration |-> Some(12),
              video_url |-> Some("https://files/video-1.mp4"), gif_url |-> None,
              thumbnail_url |-> None, created_at |-> Some(1700000000),
              error |-> None],
             [id |-> "video-1", status |-> "failed", duration |-> None,
              video_url |-> None, gif_url |-> None,
              thumbnail_url |-> None, created_at |-> None,
              error |-> Some([code |-> Some(40119), detail |-> None,
                              message |-> Some("Video is too long")])]}
      [] o = "list_templates" ->
            {[templates |-> <<>>], [templates |-> <<"template-1">>]}
      [] o = "get_template_details" ->
            {[template_id |-> Some("template-1")]}
      [] o = "generate_video_from_template" ->
            {[video_id |-> "video-1"]}
      [] o = "upload_asset" ->
            {[asset_id |-> Some("asset-1"), url |-> Some("https://files/asset-1")],
             [asset_id |-> None, url |-> None]}
      [] o = "list_assets" ->
            {[assets |-> <<>>, total |-> None],
             [assets |-> <<"asset-1">>, total |-> Some(1)]}
      [] o = "delete_asset" ->
            {EmptyDict}
      [] o = "list_folders" ->
            {[folders |-> <<>>, total |-> 0, token |-> None],
             [folders |-> <<"folder-1">>, total |-> 1, token |-> Some("next")]}
      [] o = "create_folder" ->
            {[id |-> "folder-1"]}
      [] o = "update_folder" ->
            {[id |-> "folder-1"]}
      [] o = "trash_folder" ->
            {EmptyDict}
      [] o = "restore_folder" ->
            {EmptyDict}

\* a 2xx body that is not JSON at all
NotJson == [json |-> FALSE]

\* a JSON body whose members have the wrong types for the operation's schema
WrongShape == [json |-> TRUE, typed |-> FALSE]

JsonBody(data, error) == [json |-> TRUE, typed |-> TRUE, data |-> data, error |-> error]

\* the bodies a 2xx response may carry, given the `data` values to draw from
BodiesOver(dataValues) ==
    {NotJson, WrongShape} \cup
    {JsonBody(d, e) : d \in {None} \cup {Some(v) : v \in dataValues},
                      e \in UpstreamErrors}

Bodies(o) == BodiesOver(DataValues(o))

ResponseOutcome(status, text, body) ==
    [kind |-> "response", status |-> status, text |-> text, body |-> body]

TimeoutOutcome(msg) == [kind |-> "timeout", status |-> 0, msg |-> msg]

NetworkErrorOutcome(msg) == [kind |-> "neterror", status |-> 0, msg |-> msg]

\* the awaited request is cancelled by the caller of the call
CancelledOutcome == [kind |-> "cancelled", status |-> 0, msg |-> ""]

\* everything the upstream can do to one attempt of operation o
Outcomes(o) ==
    {ResponseOutcome(s, "", b) : s \in {s2 \in Statuses : Is2xx(s2)}, b \in Bodies(o)}
    \cup {ResponseOutcome(s, t, NotJson) :
             s \in {s2 \in Statuses : ~Is2xx(s2)}, t \in ErrorTexts}
    \cup {TimeoutOutcome(m) : m \in TimeoutMessages}
    \cup {NetworkErrorOutcome(m) : m \in NetworkMessages}

\* the entry of `outcomes` for an outcome: its kind and status
Tag(o) == [kind |-> o.kind, status |-> o.status]

(***************************************************************************)
(* Exceptions.  type is the Python class; status and text are those of     *)
(* exc.response (HTTPStatusError only); str is str(exc).                   *)
(***************************************************************************)
Exc(type, status, text, str) ==
    [type |-> type, status |-> status, text |-> text, str |-> str]

\* isinstance() where asyncio.CancelledError derives from Exception, as it
\* did before Python 3.8
IsInstanceCancelledIsException(exc, cls) ==
    IF cls = "Exception" THEN TRUE
    ELSE exc.type = cls \/ (cls = "RequestError" /\ exc.type = "TimeoutException")

\* isinstance(exc, cls) for the classes the except clauses name
IsInstance(exc, cls) ==
    CASE cls = "Exception"        -> exc.type \notin {"CancelledError", "KeyboardInterrupt"}
      [] cls = "RequestError"     -> exc.type \in {"RequestError", "TimeoutException"}
      [] cls = "TimeoutException" -> exc.type = "TimeoutException"
      [] cls = "HTTPStatusError"  -> exc.type = "HTTPStatusError"
      [] cls = "RetryableHTTPError" -> exc.type = "RetryableHTTPError"
      [] cls = "RetryError"       -> exc.type = "RetryError"
      [] cls = "FileNotFoundError" -> exc.type = "FileNotFoundError"

Raise(exc) == [raised |-> TRUE, exc |-> exc]

Return(value) == [raised |-> FALSE, value |-> value]

\* no except clause of the operation matches: the exception leaves the
\* public operation and reaches its caller
Unhandled(exc) == [unhandled |-> exc]

\* f"HTTP {response.status_code}: {response.text[:200]}"
RetryableMessage(status, text) ==
    "HTTP " \o ToString(status) \o ": " \o Prefix(text, TEXT_EXCERPT_LEN)

\* str() of the HTTPStatusError that response.raise_for_status() raises
RaiseForStatusMessage(status) ==
    "Error response '" \o ToString(status) \o "' for url"

\* str() of the error response.json() raises on a body that is not JSON
JsonDecodeMessage == "Expecting value: line 1 column 1 (char 0)"

\* what follows the HTTP await in _request and in upload_asset: the status
\* checks and response.json()
CheckResponse(o) ==
    CASE o.kind = "timeout" ->
            Raise(Exc("TimeoutException", 0, "", o.msg))
      [] o.kind = "cancelled" ->
            Raise(Exc("CancelledError", 0, "", o.msg))
      [] o.kind = "neterror" ->
            Raise(Exc("RequestError", 0, "", o.msg))
      [] o.kind = "response" /\ o.status \in RETRYABLE_STATUS_CODES ->
            Raise(Exc("RetryableHTTPError", o.status, "",
                      RetryableMessage(o.status, o.text)))
      [] o.kind = "response" /\ o.status \notin RETRYABLE_STATUS_CODES
                             /\ ~Is2xx(o.status) ->
            Raise(Exc("HTTPStatusError", o.status, o.text,
                      RaiseForStatusMessage(o.status)))
      [] o.kind = "response" /\ o.status \notin RETRYABLE_STATUS_CODES
                             /\ Is2xx(o.status) ->
            IF o.body.json THEN Return(o.body)
            ELSE Raise(Exc("Exception", 0, "", JsonDecodeMessage))

(***************************************************************************)
(* The tenacity policy of _make_request_with_retry                         *)
(***************************************************************************)
\* a retry predicate that takes every httpx.RequestError, not only timeouts
RetryIfAnyRequestError(exc) ==
    IsInstance(exc, "RetryableHTTPError") \/ IsInstance(exc, "RequestError")

\* retry_if_exception_type((RetryableHTTPError, httpx.TimeoutException))
RetryIfExceptionType(exc) ==
    IsInstance(exc, "RetryableHTTPError") \/ IsInstance(exc, "TimeoutException")

\* a stop condition that is one attempt late
StopAfterAttemptLate(c, n) == n > c.max_retries

\* a stop condition that gives up one attempt early
StopAfterAttemptEarly(c, n) == n >= c.max_retries - 1

\* stop_after_attempt(self._max_retries)
StopAfterAttempt(c, n) == n >= c.max_retries

\* an exponential wait whose first delay is 2^1 instead of 2^0
WaitExponentialFromTwo(c, n) ==
    Max(Max(0, c.retry_min_wait), Min(1 * 2 ^ n, c.retry_max_wait))

\* wait_exponential(multiplier=1, min=retry_min_wait, max=retry_max_wait)
WaitExponential(c, n) ==
    Max(Max(0, c.retry_min_wait), Min(1 * 2 ^ (n - 1), c.retry_max_wait))

\* tenacity goes to sleep after attempt n failed this way
WillRetry(c, n, o) ==
    LET r == CheckResponse(o)
    IN  r.raised /\ RetryIfExceptionType(r.exc) /\ ~StopAfterAttempt(c, n)

\* the try/except around _request(): with reraise=True tenacity re-raises the
\* last exception, and a RetryableHTTPError becomes an HTTPStatusError that
\* carries an empty httpx.Response(status)
MakeRequestWithRetry(o) ==
    LET r == CheckResponse(o)
    IN  IF r.raised /\ IsInstance(r.exc, "RetryableHTTPError")
        THEN Raise(Exc("HTTPStatusError", r.exc.status, "", r.exc.str))
        ELSE r

(***************************************************************************)
(* The MCP response classes (models/*.py): every field defaults to None,   *)
(* `success` to False                                                      *)
(***************************************************************************)
McpFields(o) ==
    CASE o = "get_remaining_credits" -> {"error", "remaining_credits"}
      [] o = "get_user_info" ->
            {"error", "username", "email", "first_name", "last_name"}
      [] o = "get_voices" -> {"error", "voices"}
      [] o = "list_avatar_groups" -> {"error", "avatar_groups", "total_count"}
      [] o = "get_avatars_in_group" -> {"error", "avatars"}
      [] o = "list_avatars" -> {"error", "avatars", "total_count"}
      [] o = "get_avatar_details" -> {"error", "avatar"}
      [] o = "generate_avatar_video" ->
            {"error", "video_id", "task_id", "video_url", "status"}
      [] o = "get_video_status" ->
            {"error", "video_id", "status", "duration", "video_url", "gif_url",
             "thumbnail_url", "created_at", "error_details"}
      [] o = "list_videos" -> {"error", "videos", "total", "token"}
      [] o = "generate_avatar_iv_video" -> {"error", "video_id"}
      [] o = "list_templates" -> {"error", "templates", "total_count"}
      [] o = "get_template_details" -> {"error", "template"}
      [] o = "generate_video_from_template" -> {"error", "video_id"}
      [] o = "upload_asset" -> {"error", "asset_id", "url"}
      [] o = "list_assets" -> {"error", "assets", "total"}
      [] o = "delete_asset" -> {"error", "success", "asset_id"}
      [] o = "list_folders" -> {"error", "folders", "total", "token"}
      [] o = "create_folder" -> {"error", "folder_id"}
      [] o \in {"update_folder", "trash_folder", "restore_folder"} ->
            {"error", "folder_id", "success"}

\* mcp_response_class(**kw)
Mcp(o, kw) ==
    [f \in McpFields(o) |->
        IF f \in DOMAIN kw THEN kw[f]
        ELSE IF f = "success" THEN FALSE ELSE None]

\* the Optional data fields of a Result
DataFields(r) == DOMAIN r \ {"error", "success"}

\* bool(s) of an Optional[str]
Truthy(s) == s # None /\ s[1] # ""

(***************************************************************************)
(* Response mapping: _handle_api_request and the per-operation handlers    *)
(***************************************************************************)
\* response_model_class.model_validate(result) accepts the body
ModelValidate(o, body) ==
    /\ body.typed
    /\ o = "get_video_status" => body.data # None

\* str() of pydantic's ValidationError
ValidationMessage == "1 validation error for response model"

\* the error_msg each operation passes or returns for an empty body;
\* None where the operation has no such message
ErrorMsg(o) ==
    CASE o = "get_remaining_credits" -> Some("No quota information found.")
      [] o = "get_user_info" -> Some("No user information found.")
      [] o = "get_voices" -> Some("No voices found.")
      [] o = "list_avatar_groups" -> Some("No avatar groups found.")
      [] o = "get_avatars_in_group" -> Some("No avatars found in the group.")
      [] o = "list_avatars" -> Some("No avatars found.")
      [] o = "get_avatar_details" -> Some("Avatar not found.")
      [] o = "generate_avatar_video" -> Some("No video generation data returned.")
      [] o = "list_templates" -> Some("No templates found.")
      [] o = "get_template_details" -> Some("Template not found.")
      [] o = "generate_video_from_template" ->
            Some("Failed to generate video from template.")
      [] o = "upload_asset" -> Some("Upload failed: No data returned.")
      [] o = "list_assets" -> Some("Failed to list assets.")
      [] o = "list_folders" -> Some("Failed to list folders.")
      [] o = "create_folder" -> Some("Failed to create folder.")
      [] o \in {"get_video_status", "delete_asset", "update_folder",
                "trash_folder", "restore_folder"} -> None

\* a // b: floor division where the code truncates
FloorQuotient(a, b) == a \div b

\* int(a / b) for ints a, b > 0: true division, then truncation toward zero
IntOfQuotient(a, b) == IF a >= 0 THEN a \div b ELSE -((-a) \div b)

\* an Optional[str] field of an MCP response class, given a JSON string or None
StrField(v) == IF v = None THEN None ELSE Some(v[1].value)

\* mcp_response_class(**transformed) raises pydantic's ValidationError: an
\* Optional[str] field is given a value that is not a string
TransformRaises(o, data) ==
    /\ o = "generate_avatar_video"
    /\ \E k \in {"video_id", "task_id", "video_url", "status"} :
          DictGet(data, k) # None /\ DictGet(data, k)[1].type # "str"

\* the transform_func / keyword lambdas each operation hands to
\* _transform_to_mcp_response
TransformData(o, data) ==
    CASE o = "get_remaining_credits" ->
            Mcp(o, [remaining_credits |->
                       Some(IntOfQuotient(data.remaining_quota, QUOTA_DIVISOR))])
      [] o = "get_voices" ->
            Mcp(o, [voices |-> IF Len(data.voices) > 0
                               THEN Some(Prefix(data.voices, VOICES_LIMIT))
                               ELSE None])
      [] o = "list_avatar_groups" ->
            Mcp(o, [avatar_groups |-> Some(data.avatar_group_list),
                    total_count |-> Some(data.total_count)])
      [] o = "get_avatars_in_group" ->
            Mcp(o, [avatars |-> Some(data.avatar_list)])
      [] o = "list_avatars" ->
            Mcp(o, [avatars |-> Some(data.avatars),
                    total_count |-> Some(Len(data.avatars))])
      [] o = "get_avatar_details" ->
            Mcp(o, [avatar |-> Some(data)])
      [] o = "generate_avatar_video" ->
            Mcp(o, [video_id  |-> StrField(DictGet(data, "video_id")),
                    task_id   |-> StrField(DictGet(data, "task_id")),
                    video_url |-> StrField(DictGet(data, "video_url")),
                    status    |-> StrField(DictGet(data, "status"))])
      [] o = "list_templates" ->
            Mcp(o, [templates |-> Some(data.templates),
                    total_count |-> Some(Len(data.templates))])
      [] o = "get_template_details" ->
            Mcp(o, [template |-> Some(data)])
      [] o = "generate_video_from_template" ->
            Mcp(o, [video_id |-> Some(data.video_id)])
      [] o = "list_assets" ->
            Mcp(o, [assets |-> Some(data.assets), total |-> data.total])
      [] o = "list_folders" ->
            Mcp(o, [folders |-> Some(data.folders),
                    total |-> Some(data.total), token |-> data.token])

\* `validated_response.data` is truthy: a pydantic object always is, a dict
\* only when it is not empty
DataTruthy(o, data) ==
    /\ data # None
    /\ o = "generate_avatar_video" => DictTruthy(data[1])

\* the except clauses without the closing `except Exception`
HandleApiRequestExceptNoCatchAll(o, c, exc) ==
    IF IsInstance(exc, "RetryError")
    THEN Mcp(o, [error |-> Some("Request failed after " \o ToString(c.max_retries)
                                 \o " retries: " \o exc.str)])
    ELSE IF IsInstance(exc, "TimeoutException")
    THEN Mcp(o, [error |-> Some("Request timed out: " \o exc.str)])
    ELSE IF IsInstance(exc, "RequestError")
    THEN Mcp(o, [error |-> Some("HTTP Request failed: " \o exc.str)])
    ELSE IF IsInstance(exc, "HTTPStatusError")
    THEN Mcp(o, [error |-> Some("HTTP Error: " \o ToString(exc.status)
                                 \o " - " \o exc.text)])
    ELSE Unhandled(exc)

\* the except clauses of _handle_api_request, in order
HandleApiRequestExcept(o, c, exc) ==
    IF IsInstance(exc, "RetryError")
    THEN Mcp(o, [error |-> Some("Request failed after " \o ToString(c.max_retries)
                                 \o " retries: " \o exc.str)])
    ELSE IF IsInstance(exc, "TimeoutException")
    THEN Mcp(o, [error |-> Some("Request timed out: " \o exc.str)])
    ELSE IF IsInstance(exc, "RequestError")
    THEN Mcp(o, [error |-> Some("HTTP Request failed: " \o exc.str)])
    ELSE IF IsInstance(exc, "HTTPStatusError")
    THEN Mcp(o, [error |-> Some("HTTP Error: " \o ToString(exc.status)
                                 \o " - " \o exc.text)])
    ELSE IF IsInstance(exc, "Exception")
    THEN Mcp(o, [error |-> Some("An unexpected error occurred: " \o exc.str)])
    ELSE Unhandled(exc)

\* _handle_api_request, given what api_call() returned or raised
HandleApiRequest(o, c, r) ==
    IF r.raised THEN HandleApiRequestExcept(o, c, r.exc)
    ELSE IF ~ModelValidate(o, r.value)
    THEN HandleApiRequestExcept(o, c, Exc("Exception", 0, "", ValidationMessage))
    ELSE IF DataTruthy(o, r.value.data)
    THEN IF TransformRaises(o, r.value.data[1])
         THEN HandleApiRequestExcept(o, c, Exc("Exception", 0, "", ValidationMessage))
         ELSE TransformData(o, r.value.data[1])
    ELSE IF Truthy(r.value.error) THEN Mcp(o, [error |-> r.value.error])
    ELSE Mcp(o, [error |-> ErrorMsg(o)])

\* the except clauses shared by get_user_info and get_video_status
V1Except(o, exc) ==
    IF IsInstance(exc, "RequestError")
    THEN Mcp(o, [error |-> Some("HTTP Request failed: " \o exc.str)])
    ELSE IF IsInstance(exc, "HTTPStatusError")
    THEN Mcp(o, [error |-> Some("HTTP Error: " \o ToString(exc.status)
                                 \o " - " \o exc.text)])
    ELSE IF IsInstance(exc, "Exception")
    THEN Mcp(o, [error |-> Some("An unexpected error occurred: " \o exc.str)])
    ELSE Unhandled(exc)

\* get_user_info: UserInfoResponse has no `error` member
GetUserInfo(r) ==
    LET o == "get_user_info"
    IN  IF r.raised THEN V1Except(o, r.exc)
        ELSE IF ~ModelValidate(o, r.value)
        THEN V1Except(o, Exc("Exception", 0, "", ValidationMessage))
        ELSE IF r.value.data # None
        THEN Mcp(o, [username   |-> r.value.data[1].username,
                     email      |-> r.value.data[1].email,
                     first_name |-> r.value.data[1].first_name,
                     last_name  |-> r.value.data[1].last_name])
        ELSE Mcp(o, [error |-> ErrorMsg(o)])

\* get_video_status: VideoStatusResponse requires `data`
GetVideoStatus(r) ==
    LET o == "get_video_status"
    IN  IF r.raised THEN V1Except(o, r.exc)
        ELSE IF ~ModelValidate(o, r.value)
        THEN V1Except(o, Exc("Exception", 0, "", ValidationMessage))
        ELSE LET data == r.value.data[1]
             IN  Mcp(o, [video_id      |-> Some(data.id),
                         status        |-> Some(data.status),
                         duration      |-> data.duration,
                         video_url     |-> data.video_url,
                         gif_url       |-> data.gif_url,
                         thumbnail_url |-> data.thumbnail_url,
                         created_at    |-> data.created_at,
                         error_details |-> IF data.error # None
                                           THEN Some(data.error[1]) ELSE None])

\* the words the asset / folder handlers put in front of str(exc)
FailedPrefix(o) ==
    CASE o = "delete_asset"   -> "Failed to delete asset: "
      [] o = "create_folder"  -> "Failed to create folder: "
      [] o = "update_folder"  -> "Failed to update folder: "
      [] o = "trash_folder"   -> "Failed to trash folder: "
      [] o = "restore_folder" -> "Failed to restore folder: "
      [] o = "upload_asset"   -> "Upload failed: "

ErrorPrefix(o) ==
    CASE o = "delete_asset"   -> "Error deleting asset: "
      [] o = "create_folder"  -> "Error creating folder: "
      [] o = "update_folder"  -> "Error updating folder: "
      [] o = "trash_folder"   -> "Error trashing folder: "
      [] o = "restore_folder" -> "Error restoring folder: "
      [] o = "upload_asset"   -> "Upload error: "

\* except httpx.HTTPStatusError / except Exception of those handlers
AssetFolderExcept(o, exc) ==
    IF IsInstance(exc, "HTTPStatusError")
    THEN Mcp(o, [error |-> Some(FailedPrefix(o) \o exc.str)])
    ELSE IF IsInstance(exc, "Exception")
    THEN Mcp(o, [error |-> Some(ErrorPrefix(o) \o exc.str)])
    ELSE Unhandled(exc)

\* the name of the id field of the Result
IdField(o) == IF o = "delete_asset" THEN "asset_id" ELSE "folder_id"

\* an id operation that leaves success at True when it reports the upstream
\* error
IdOperationErrorWithSuccess(o, id, r) ==
    IF r.raised THEN AssetFolderExcept(o, r.exc)
    ELSE IF ~ModelValidate(o, r.value)
    THEN AssetFolderExcept(o, Exc("Exception", 0, "", ValidationMessage))
    ELSE IF Truthy(r.value.error)
    THEN Mcp(o, [error |-> r.value.error, success |-> TRUE])
    ELSE Mcp(o, [f \in {"success", IdField(o)} |->
                    IF f = "success" THEN TRUE ELSE Some(id)])

\* delete_asset, update_folder, trash_folder, restore_folder
IdOperation(o, id, r) ==
    IF r.raised THEN AssetFolderExcept(o, r.exc)
    ELSE IF ~ModelValidate(o, r.value)
    THEN AssetFolderExcept(o, Exc("Exception", 0, "", ValidationMessage))
    ELSE IF Truthy(r.value.error)
    THEN Mcp(o, [error |-> r.value.error, success |-> FALSE])
    ELSE Mcp(o, [f \in {"success", IdField(o)} |->
                    IF f = "success" THEN TRUE ELSE Some(id)])

\* create_folder: the error is looked at before the data
CreateFolder(r) ==
    LET o == "create_folder"
    IN  IF r.raised THEN AssetFolderExcept(o, r.exc)
        ELSE IF ~ModelValidate(o, r.value)
        THEN AssetFolderExcept(o, Exc("Exception", 0, "", ValidationMessage))
        ELSE IF Truthy(r.value.error) THEN Mcp(o, [error |-> r.value.error])
        ELSE IF r.value.data # None
        THEN Mcp(o, [folder_id |-> Some(r.value.data[1].id)])
        ELSE Mcp(o, [error |-> ErrorMsg(o)])

\* os.path.basename(file_path)
Basename(path) ==
    CASE path = ExistingPath -> "photo.png"
      [] path = MissingPath  -> "missing.png"

\* a message that names the file's base name only
FileNotFoundMessageBasename(path) == "File not found: " \o Basename(path)

\* f"File not found: {file_path}"
FileNotFoundMessage(path) == "File not found: " \o path

\* upload_asset, given what the single post and its checks returned or raised
UploadAsset(path, r) ==
    LET o == "upload_asset"
    IN  IF r.raised /\ IsInstance(r.exc, "FileNotFoundError")
        THEN Mcp(o, [error |-> Some(FileNotFoundMessage(path))])
        ELSE IF r.raised THEN AssetFolderExcept(o, r.exc)
        ELSE IF ~ModelValidate(o, r.value)
        THEN AssetFolderExcept(o, Exc("Exception", 0, "", ValidationMessage))
        ELSE IF Truthy(r.value.error) THEN Mcp(o, [error |-> r.value.error])
        ELSE IF r.value.data # None
        THEN Mcp(o, [asset_id |-> r.value.data[1].asset_id,
                     url      |-> r.value.data[1].url])
        ELSE Mcp(o, [error |-> ErrorMsg(o)])

\* list_videos and generate_avatar_iv_video, mapped as the response contract
\* prescribes: data is transformed, else the upstream error is passed on,
\* else a fallback message is returned
DeclaredOperation(o, c, r) ==
    IF r.raised THEN HandleApiRequestExcept(o, c, r.exc)
    ELSE IF ~ModelValidate(o, r.value)
    THEN HandleApiRequestExcept(o, c, Exc("Exception", 0, "", ValidationMessage))
    ELSE IF r.value.data # None
    THEN IF o = "list_videos"
         THEN Mcp(o, [videos |-> Some(r.value.data[1].videos),
                      total  |-> Some(Len(r.value.data[1].videos)),
                      token  |-> r.value.data[1].token])
         ELSE Mcp(o, [video_id |-> Some(r.value.data[1].video_id)])
    ELSE IF Truthy(r.value.error) THEN Mcp(o, [error |-> r.value.error])
    ELSE Mcp(o, [error |-> Some(IF o = "list_videos" THEN "No videos found."
                                ELSE "No video generation data returned.")])

\* the Result of a JSON operation, given what _make_request returned or raised
ClientResult(o, a, c, r) ==
    CASE o \in HandledOps -> HandleApiRequest(o, c, r)
      [] o \in DeclaredOps -> DeclaredOperation(o, c, r)
      [] o = "get_user_info" -> GetUserInfo(r)
      [] o = "get_video_status" -> GetVideoStatus(r)
      [] o = "create_folder" -> CreateFolder(r)
      [] o \in IdOps -> IdOperation(o, a, r)

(***************************************************************************)
(* The request of generate_avatar_video: the scenes a caller gives to the  *)
(* videos tool, the pydantic request built from them, and its JSON body    *)
(***************************************************************************)
BackgroundKeys ==
    {"type", "value", "url", "image_asset_id", "video_asset_id", "play_style"}

\* the "background" dict of a scene; None marks a key the caller left out
BgData(given) ==
    [k \in BackgroundKeys |-> IF k \in DOMAIN given THEN Some(given[k]) ELSE None]

\* one scene of video_inputs_json; None marks a missing key
Scene(avatar_id, input_text, voice_id, background) ==
    [avatar_id |-> avatar_id, input_text |-> input_text, voice_id |-> voice_id,
     background |-> background]

PlainScene == Scene(Some("avatar-1"), Some("Hello"), Some("voice-1"), None)

GoodScenes ==
    {PlainScene}
    \cup {Scene(Some("avatar-1"), Some("Hello"), Some("voice-1"), Some(bg)) :
            bg \in {BgData([type |-> "color", value |-> "#008000"]),
                    BgData([type |-> "image", image_asset_id |-> "asset-1"]),
                    BgData([type |-> "video", video_asset_id |-> "asset-2"]),
                    BgData([type |-> "video", url |-> "https://files/bg.mp4",
                            play_style |-> "loop"]),
                    BgData([type |-> "gradient"])}}

BadScenes ==
    {Scene(None, Some("Hello"), Some("voice-1"), None),
     Scene(Some("avatar-1"), None, Some("voice-1"), None),
     Scene(Some("avatar-1"), Some("Hello"), None, None)}

\* scenes that lack more than one required key
WorseScenes ==
    {Scene(None, None, None, None),
     Scene(Some("avatar-1"), None, None, None),
     Scene(None, Some("Hello"), None, None)}

\* the first missing required field of scene number i, if any
SceneError(i, scene) ==
    IF scene.avatar_id = None
    THEN Some("Scene " \o ToString(i) \o ": character.avatar_id is required")
    ELSE IF scene.input_text = None
    THEN Some("Scene " \o ToString(i) \o ": voice.input_text is required")
    ELSE IF scene.voice_id = None
    THEN Some("Scene " \o ToString(i) \o ": voice.voice_id is required")
    ELSE None

\* the Background object built from a scene's "background" dict, by type
BuildBackground(background) ==
    IF background = None THEN None
    ELSE LET bg_data == background[1]
         IN  IF bg_data.type = Some("color")
             THEN Some([type |-> Some("color"), value |-> bg_data.value,
                        url |-> None, image_asset_id |-> None,
                        video_asset_id |-> None, play_style |-> None])
             ELSE IF bg_data.type = Some("image")
             THEN Some([type |-> Some("image"), value |-> None,
                        url |-> bg_data.url,
                        image_asset_id |-> bg_data.image_asset_id,
                        video_asset_id |-> None, play_style |-> None])
             ELSE IF bg_data.type = Some("video")
             THEN Some([type |-> Some("video"), value |-> None,
                        url |-> bg_data.url, image_asset_id |-> None,
                        video_asset_id |-> bg_data.video_asset_id,
                        play_style |-> IF bg_data.play_style = None
                                       THEN Some("fit_to_scene")
                                       ELSE bg_data.play_style])
             ELSE None

\* VideoInput(character=..., voice=..., background=...)
VideoInput(scene) ==
    [character  |-> [type |-> "avatar", avatar_id |-> scene.avatar_id[1],
                     avatar_style |-> "normal", scale |-> 1],
     voice      |-> [type |-> "text", input_text |-> scene.input_text[1],
                     voice_id |-> scene.voice_id[1]],
     background |-> BuildBackground(scene.background)]

\* VideoGenerateRequest(title=..., video_inputs=..., dimension=Dimension(1280, 720))
VideoGenerateRequest(title, video_inputs) ==
    [title |-> title, video_inputs |-> video_inputs, test |-> FALSE,
     callback_id |-> None, dimension |-> [width |-> 1280, height |-> 720],
     aspect_ratio |-> None, caption |-> FALSE]

\* model_dump() of a pydantic object: a dict with a key for every field of
\* the model, the fields that are None included (None is JSON null)
DumpFields(obj) == [k \in DOMAIN obj |-> obj[k]]

DumpVideoInput(video_input) ==
    [character  |-> DumpFields(video_input.character),
     voice      |-> DumpFields(video_input.voice),
     background |-> IF video_input.background = None THEN None
                    ELSE Some(DumpFields(video_input.background[1]))]

\* video_request.model_dump()
ModelDump(video_request) ==
    [k \in DOMAIN video_request |->
        IF k = "video_inputs"
        THEN [i \in 1..Len(video_request.video_inputs) |->
                 DumpVideoInput(video_request.video_inputs[i])]
        ELSE video_request[k]]

\* the request built from a list of valid scenes
RequestOfScenes(scenes) ==
    VideoGenerateRequest("", [i \in 1..Len(scenes) |-> VideoInput(scenes[i])])

\* the JSON bodies the model tracks: those of generate_avatar_video
RequestBodies(o) ==
    IF o = "generate_avatar_video"
    THEN {Some(ModelDump(RequestOfScenes(<<sc>>))) : sc \in GoodScenes}
    ELSE {None}

(***************************************************************************)
(* Concurrent coroutines: their state before anything has run              *)
(***************************************************************************)
\* two logical calls run on one client; two coroutines run on the server
CallIds == {1, 2}

TaskIds == {1, 2}

\* a call that has not started: tenacity's retry state is created per call
IdleCall ==
    [pc |-> "idle", attempt_number |-> 0, attempts |-> 0,
     sleeps |-> <<>>, outcomes |-> <<>>]

\* a server coroutine that is not running; client is the instance it holds
IdleTask == [pc |-> "idle", client |-> None]

InitConc ==
    /\ calls = [c \in CallIds |-> IdleCall]
    /\ singleton = None
    /\ instances = <<>>
    /\ tasks = [t \in TaskIds |-> IdleTask]

(***************************************************************************)
(* One logical client call                                                 *)
(***************************************************************************)
Init ==
    /\ cfg \in Configs
    /\ pc = "idle"
    /\ op = "none"
    /\ arg = ""
    /\ attempt_number = 0
    /\ attempts = 0
    /\ sleeps = <<>>
    /\ warnings = 0
    /\ outcomes = <<>>
    /\ response = None
    /\ result = None
    /\ request_body = None
    /\ env_api_key = TRUE
    /\ api_client = FALSE
    /\ tool = None
    /\ InitConc

\* _request() issues the first HTTP request of operation o
StartRequest(o, a, body) ==
    /\ pc' = "inflight"
    /\ op' = o
    /\ arg' = a
    /\ attempt_number' = 1
    /\ attempts' = 1
    /\ sleeps' = <<>>
    /\ warnings' = 0
    /\ outcomes' = <<>>
    /\ response' = None
    /\ result' = None
    /\ request_body' = body
    /\ UNCHANGED cfg

\* upload_asset on a readable file: it posts the file once
StartUpload(path) ==
    /\ pc' = "inflight"
    /\ op' = "upload_asset"
    /\ arg' = path
    /\ attempt_number' = 0
    /\ attempts' = 1
    /\ sleeps' = <<>>
    /\ warnings' = 0
    /\ outcomes' = <<>>
    /\ response' = None
    /\ result' = None
    /\ request_body' = None
    /\ UNCHANGED cfg

\* str() of the FileNotFoundError that open(file_path, "rb") raises
OpenErrorMessage(path) == "[Errno 2] No such file or directory: '" \o path \o "'"

\* a call that returns r without issuing any HTTP request
ReturnAtOnce(o, a, r) ==
    /\ pc' = "done"
    /\ op' = o
    /\ arg' = a
    /\ attempt_number' = 0
    /\ attempts' = 0
    /\ sleeps' = <<>>
    /\ warnings' = 0
    /\ outcomes' = <<>>
    /\ response' = None
    /\ result' = Some(r)
    /\ request_body' = None
    /\ UNCHANGED cfg

\* upload_asset on a path with no file: open() raises before the post
UploadMissingFile(path) ==
    ReturnAtOnce("upload_asset", path,
                 UploadAsset(path, Raise(Exc("FileNotFoundError", 0, "",
                                             OpenErrorMessage(path)))))

\* a JSON operation is called on the client directly
CallJson(o, a) ==
    /\ pc \in {"idle", "done"}
    /\ o \in JsonOps
    /\ a \in Args(o)
    /\ \E body \in RequestBodies(o) : StartRequest(o, a, body)
    /\ tool' = None
    /\ UNCHANGED <<env_api_key, api_client, concvars>>

\* upload_asset is called on a readable file
CallUpload ==
    /\ pc \in {"idle", "done"}
    /\ StartUpload(ExistingPath)
    /\ tool' = None
    /\ UNCHANGED <<env_api_key, api_client, concvars>>

\* upload_asset is called on a path with no file
CallUploadMissingFile ==
    /\ pc \in {"idle", "done"}
    /\ UploadMissingFile(MissingPath)
    /\ tool' = None
    /\ UNCHANGED <<env_api_key, api_client, concvars>>

\* a before_sleep hook that logs nothing
BeforeSleepLogSilent(w) == w

\* before_sleep_log(logger, logging.WARNING): one warning record per sleep
BeforeSleepLog(w) == w + 1

\* an attempt fails in a retryable way with attempts left: warn, then sleep
RetrySleep(o) ==
    /\ pc = "inflight"
    /\ op \in RetryOps
    /\ o \in Outcomes(op)
    /\ WillRetry(cfg, attempt_number, o)
    /\ pc' = "sleeping"
    /\ outcomes' = Append(outcomes, Tag(o))
    /\ response' = Some(o)
    /\ warnings' = BeforeSleepLog(warnings)
    /\ sleeps' = Append(sleeps, WaitExponential(cfg, attempt_number))
    /\ UNCHANGED <<cfg, op, arg, attempt_number, attempts, result,
                   request_body, servervars, concvars>>

Retry == pc = "inflight" /\ op \in RetryOps /\ \E o \in Outcomes(op) : RetrySleep(o)

\* a wake-up that issues the next request twice
WakeUpTwoRequests ==
    /\ pc = "sleeping"
    /\ pc' = "inflight"
    /\ attempt_number' = attempt_number + 1
    /\ attempts' = attempts + 2
    /\ UNCHANGED <<cfg, op, arg, sleeps, warnings, outcomes, response, result,
                   request_body, servervars, concvars>>

\* the sleep is over: _request() is called again
WakeUp ==
    /\ pc = "sleeping"
    /\ pc' = "inflight"
    /\ attempt_number' = attempt_number + 1
    /\ attempts' = attempts + 1
    /\ UNCHANGED <<cfg, op, arg, sleeps, warnings, outcomes, response, result,
                   request_body, servervars, concvars>>

\* an attempt ends the call: the operation maps what _make_request returned
\* or raised into its Result
Finish(o) ==
    /\ pc = "inflight"
    /\ op \in RetryOps
    /\ o \in Outcomes(op)
    /\ ~WillRetry(cfg, attempt_number, o)
    /\ pc' = "done"
    /\ outcomes' = Append(outcomes, Tag(o))
    /\ response' = Some(o)
    /\ result' = Some(ClientResult(op, arg, cfg, MakeRequestWithRetry(o)))
    /\ UNCHANGED <<cfg, op, arg, attempt_number, attempts, sleeps, warnings,
                   request_body, servervars, concvars>>

Respond == pc = "inflight" /\ op \in RetryOps /\ \E o \in Outcomes(op) : Finish(o)

\* upload_asset's post completes: no retry policy is applied
FinishUpload(o) ==
    /\ pc = "inflight"
    /\ op = "upload_asset"
    /\ o \in Outcomes(op)
    /\ pc' = "done"
    /\ outcomes' = Append(outcomes, Tag(o))
    /\ response' = Some(o)
    /\ result' = Some(UploadAsset(arg, CheckResponse(o)))
    /\ UNCHANGED <<cfg, op, arg, attempt_number, attempts, sleeps, warnings,
                   request_body, servervars, concvars>>

RespondUpload ==
    pc = "inflight" /\ op = "upload_asset" /\ \E o \in Outcomes(op) : FinishUpload(o)

Next ==
    \/ \E o \in JsonOps : \E a \in Args(o) : CallJson(o, a)
    \/ CallUpload
    \/ CallUploadMissingFile
    \/ Retry
    \/ WakeUp
    \/ Respond
    \/ RespondUpload

Spec == Init /\ [][Next]_vars

(***************************************************************************)
(* One call through _make_request_with_retry at a time, under fairness     *)
(***************************************************************************)
\* the operations followed under fairness: one served by
\* _handle_api_request and one with its own handler
LiveOps == {"get_remaining_credits", "get_video_status"}

\* a JSON operation is awaited on an idle client
CallOnce(o, a) == pc = "idle" /\ CallJson(o, a)

\* the operation's coroutine returns its Result to the awaiting caller:
\* nothing of the call is kept on the client
CallReturns ==
    /\ pc = "done"
    /\ pc' = "idle"
    /\ op' = "none"
    /\ arg' = ""
    /\ attempt_number' = 0
    /\ attempts' = 0
    /\ sleeps' = <<>>
    /\ warnings' = 0
    /\ outcomes' = <<>>
    /\ response' = None
    /\ result' = None
    /\ request_body' = None
    /\ UNCHANGED <<cfg, servervars, concvars>>

NextLive ==
    \/ \E o \in LiveOps : \E a \in Args(o) : CallOnce(o, a)
    \/ Retry
    \/ WakeUp
    \/ Respond
    \/ CallReturns

\* Every HTTP attempt eventually returns a response or fails (the awaited
\* self._client.request() completes or raises), and every asyncio.sleep()
\* between two attempts ends.
Fairness ==
    /\ WF_vars(Retry \/ Respond)
    /\ WF_vars(WakeUp)

SpecLive == Init /\ [][NextLive]_vars /\ Fairness

(***************************************************************************)
(* The MCP tools of server.py                                              *)
(***************************************************************************)
\* <<tool, action>>
ToolActions ==
    {<<"user", "info">>, <<"user", "credits">>, <<"voices", "list">>,
     <<"avatars", "list">>, <<"avatars", "get">>, <<"avatars", "list_groups">>,
     <<"avatars", "list_in_group">>,
     <<"videos", "list">>, <<"videos", "generate">>, <<"videos", "generate_iv">>,
     <<"videos", "status">>,
     <<"templates", "list">>, <<"templates", "get">>, <<"templates", "generate">>,
     <<"assets", "list">>, <<"assets", "upload">>, <<"assets", "delete">>,
     <<"folders", "list">>, <<"folders", "create">>, <<"folders", "rename">>,
     <<"folders", "trash">>, <<"folders", "restore">>}

\* videos with action 'list' routed to the status operation
VideosOpListAsStatus(a) ==
    CASE a = "list" -> "get_video_status"
      [] a = "generate" -> "generate_avatar_video"
      [] a = "generate_iv" -> "generate_avatar_iv_video"
      [] a = "status" -> "get_video_status"

\* the client operation each action of the videos tool delegates to
VideosOp(a) ==
    CASE a = "list" -> "list_videos"
      [] a = "generate" -> "generate_avatar_video"
      [] a = "generate_iv" -> "generate_avatar_iv_video"
      [] a = "status" -> "get_video_status"

\* the client operation each action delegates to
ClientOp(t, a) ==
    CASE t = "user" /\ a = "info" -> "get_user_info"
      [] t = "user" /\ a = "credits" -> "get_remaining_credits"
      [] t = "voices" /\ a = "list" -> "get_voices"
      [] t = "avatars" /\ a = "list" -> "list_avatars"
      [] t = "avatars" /\ a = "get" -> "get_avatar_details"
      [] t = "avatars" /\ a = "list_groups" -> "list_avatar_groups"
      [] t = "avatars" /\ a = "list_in_group" -> "get_avatars_in_group"
      [] t = "videos" -> VideosOp(a)
      [] t = "templates" /\ a = "list" -> "list_templates"
      [] t = "templates" /\ a = "get" -> "get_template_details"
      [] t = "templates" /\ a = "generate" -> "generate_video_from_template"
      [] t = "assets" /\ a = "list" -> "list_assets"
      [] t = "assets" /\ a = "upload" -> "upload_asset"
      [] t = "assets" /\ a = "delete" -> "delete_asset"
      [] t = "folders" /\ a = "list" -> "list_folders"
      [] t = "folders" /\ a = "create" -> "create_folder"
      [] t = "folders" /\ a = "rename" -> "update_folder"
      [] t = "folders" /\ a = "trash" -> "trash_folder"
      [] t = "folders" /\ a = "restore" -> "restore_folder"

\* the parameters each action requires, in the order the tool checks them
RequiredParams(t, a) ==
    CASE t = "avatars" /\ a = "get" -> <<"avatar_id">>
      [] t = "avatars" /\ a = "list_in_group" -> <<"group_id">>
      [] t = "videos" /\ a = "generate" -> <<"video_inputs_json">>
      [] t = "videos" /\ a = "generate_iv" ->
            <<"image_key", "script", "voice_id", "video_title">>
      [] t = "videos" /\ a = "status" -> <<"video_id">>
      [] t = "templates" /\ a \in {"get", "generate"} -> <<"template_id">>
      [] t = "assets" /\ a = "upload" -> <<"file_path">>
      [] t = "assets" /\ a = "delete" -> <<"asset_id">>
      [] t = "folders" /\ a = "create" -> <<"name">>
      [] t = "folders" /\ a = "rename" -> <<"folder_id", "name">>
      [] t = "folders" /\ a \in {"trash", "restore"} -> <<"folder_id">>
      [] OTHER -> <<>>

\* the response class of the tool's `except Exception` branch, named by the
\* client operation that returns the same class
ExceptClass(t, a) ==
    CASE t = "user" -> IF a = "credits" THEN "get_remaining_credits"
                       ELSE "get_user_info"
      [] t = "voices" -> "get_voices"
      [] t = "avatars" -> "list_avatars"
      [] t = "videos" -> IF a \in {"list", "status", "generate_iv"}
                         THEN ClientOp(t, a) ELSE "generate_avatar_video"
      [] t = "templates" -> "list_templates"
      [] t = "assets" -> IF a \in {"upload", "delete"}
                         THEN ClientOp(t, a) ELSE "list_assets"
      [] t = "folders" -> IF a \in {"create", "rename", "trash", "restore"}
                          THEN ClientOp(t, a) ELSE "list_folders"

\* video_inputs_json texts: "", text that is not JSON, a JSON object, and
\* JSON arrays of scenes
EmptyText == [kind |-> "empty"]

InvalidJson == [kind |-> "invalid"]

JsonObject == [kind |-> "object"]

JsonArray(scenes) == [kind |-> "array", scenes |-> scenes]

JsonInputs ==
    {EmptyText, InvalidJson, JsonObject, JsonArray(<<>>)}
    \cup {JsonArray(<<sc>>) : sc \in GoodScenes \cup BadScenes}
    \cup {JsonArray(<<PlainScene, sc>>) : sc \in GoodScenes \cup BadScenes}
    \cup {JsonArray(<<sc>>) : sc \in WorseScenes}
    \cup {JsonArray(<<sc1, sc2>>) : sc1 \in BadScenes, sc2 \in BadScenes}

\* the values a string parameter is called with: absent, empty, given
ParamValues(p) ==
    IF p = "file_path" THEN {None, Some(""), Some(ExistingPath), Some(MissingPath)}
    ELSE {None, Some(""), Some("id-1")}

\* the keyword arguments an action is called with
ParamSets(t, a) ==
    IF a = "generate" /\ t = "videos"
    THEN {[video_inputs_json |-> v] : v \in {None} \cup {Some(j) : j \in JsonInputs}}
    ELSE LET req == RequiredParams(t, a)
             names == {req[i] : i \in 1..Len(req)}
         IN  {ps \in [names -> {None, Some(""), Some("id-1"), Some(ExistingPath),
                                Some(MissingPath)}] :
                 \A p \in names : ps[p] \in ParamValues(p)}

ToolCalls ==
    UNION {{[tool |-> ta[1], action |-> ta[2], params |-> ps] :
               ps \in ParamSets(ta[1], ta[2])} : ta \in ToolActions}

\* bool(value) of a str | None parameter
ParamTruthy(p, v) ==
    /\ v # None
    /\ IF p = "video_inputs_json" THEN v[1].kind # "empty" ELSE v[1] # ""

\* the first required parameter that is absent or empty, if any
MissingParam(call) ==
    LET req == RequiredParams(call.tool, call.action)
        bad == {i \in 1..Len(req) : ~ParamTruthy(req[i], call.params[req[i]])}
    IN  IF bad = {} THEN None
        ELSE Some(req[CHOOSE i \in bad : \A j \in bad : i <= j])

\* the error the tool returns for a missing parameter p
RequiredMessage(a, p) ==
    p \o " is required for '" \o a \o "' action" \o
    (IF p = "video_inputs_json" THEN ". Provide a JSON array of scenes, e.g.: [...]"
     ELSE IF p = "image_key" THEN " (upload photo first using assets tool)"
     ELSE "")

\* the error of videos generate for a video_inputs_json it cannot use, if any
VideoInputsError(json) ==
    IF json.kind = "invalid"
    THEN Some("Invalid JSON in video_inputs_json: " \o JsonDecodeMessage)
    ELSE IF json.kind # "array"
    THEN Some("video_inputs_json must be a JSON array of scenes")
    ELSE IF Len(json.scenes) = 0
    THEN Some("video_inputs_json must contain at least one scene")
    ELSE LET bad == {i \in 1..Len(json.scenes) :
                        SceneError(i, json.scenes[i]) # None}
         IN  IF bad = {} THEN None
             ELSE LET i == CHOOSE k \in bad : \A j \in bad : k <= j
                  IN  SceneError(i, json.scenes[i])

\* str() of the ValueError get_api_client() raises
ApiKeyMessage == "HEYGEN_API_KEY environment variable not set."

\* the body of a tool after it has the client: parameter checks, then the
\* call of the client operation
Dispatch(call) ==
    LET o == ClientOp(call.tool, call.action)
        missing == MissingParam(call)
    IN  IF missing # None
        THEN ReturnAtOnce("none", "",
                          Mcp(o, [error |-> Some(RequiredMessage(call.action,
                                                                 missing[1]))]))
        ELSE IF o = "generate_avatar_video"
        THEN LET json == call.params.video_inputs_json[1]
             IN  IF VideoInputsError(json) # None
                 THEN ReturnAtOnce("none", "",
                                   Mcp(o, [error |-> VideoInputsError(json)]))
                 ELSE StartRequest(o, "",
                                   Some(ModelDump(RequestOfScenes(json.scenes))))
        ELSE IF o = "upload_asset"
        THEN IF call.params.file_path[1] = ExistingPath
             THEN StartUpload(call.params.file_path[1])
             ELSE UploadMissingFile(call.params.file_path[1])
        ELSE IF o = "delete_asset"
        THEN StartRequest(o, call.params.asset_id[1], None)
        ELSE IF o \in IdOps
        THEN StartRequest(o, call.params.folder_id[1], None)
        ELSE StartRequest(o, "", None)

\* a get_api_client() that builds a client whatever the environment holds
GetApiClientNeverRaises(client, key) == FALSE

\* get_api_client() raises ValueError: there is no singleton yet and
\* os.getenv("HEYGEN_API_KEY") is None or empty
GetApiClientRaises(client, key) == ~client /\ ~key

\* a tool is called: it gets the client singleton first (created from
\* HEYGEN_API_KEY on first use), and a ValueError of get_api_client() is
\* returned as the tool's error
Tool(call) ==
    /\ pc = "idle"
    /\ call \in ToolCalls
    /\ tool' = Some(call)
    /\ UNCHANGED <<env_api_key, concvars>>
    /\ IF GetApiClientRaises(api_client, env_api_key)
       THEN /\ api_client' = FALSE
            /\ ReturnAtOnce("none", "",
                            Mcp(ExceptClass(call.tool, call.action),
                                [error |-> Some(ApiKeyMessage)]))
       ELSE /\ api_client' = TRUE
            /\ Dispatch(call)

\* the tool hands its Result to the MCP runtime: nothing of the call is
\* kept but the client singleton
ToolReturn ==
    /\ pc = "done"
    /\ pc' = "idle"
    /\ op' = "none"
    /\ arg' = ""
    /\ attempt_number' = 0
    /\ attempts' = 0
    /\ sleeps' = <<>>
    /\ warnings' = 0
    /\ outcomes' = <<>>
    /\ response' = None
    /\ result' = None
    /\ request_body' = None
    /\ tool' = None
    /\ UNCHANGED <<cfg, env_api_key, api_client, concvars>>

\* reset_api_client(): closes and drops the singleton
ResetApiClient ==
    /\ pc = "idle"
    /\ api_client
    /\ api_client' = FALSE
    /\ UNCHANGED <<cfg, pc, op, arg, attempt_number, attempts, sleeps, warnings,
                   outcomes, response, result, request_body, env_api_key, tool,
                   concvars>>

\* the server starts with no client; the key may or may not be in the
\* environment of the process that imports the tools
InitTool ==
    /\ cfg = DefaultConfig
    /\ pc = "idle"
    /\ op = "none"
    /\ arg = ""
    /\ attempt_number = 0
    /\ attempts = 0
    /\ sleeps = <<>>
    /\ warnings = 0
    /\ outcomes = <<>>
    /\ response = None
    /\ result = None
    /\ request_body = None
    /\ env_api_key \in BOOLEAN
    /\ api_client = FALSE
    /\ tool = None
    /\ InitConc

NextTool ==
    \/ \E call \in ToolCalls : Tool(call)
    \/ ToolReturn
    \/ ResetApiClient
    \/ Retry
    \/ WakeUp
    \/ Respond
    \/ RespondUpload

SpecTool == InitTool /\ [][NextTool]_vars

(***************************************************************************)
(* The response mapping alone: a 2xx body of get_remaining_credits or      *)
(* get_voices, drawn from the whole bounded range, is mapped to its Result *)
(***************************************************************************)
MapOps == {"get_remaining_credits", "get_voices"}

MapDataValues(o) ==
    IF o = "get_remaining_credits"
    THEN {[remaining_quota |-> v] : v \in (-MaxQuota)..MaxQuota}
    ELSE {[voices |-> VoiceList(n, asc)] : n \in 0..MaxVoices, asc \in BOOLEAN}

MapOutcomes(o) == {ResponseOutcome(200, "", b) : b \in BodiesOver(MapDataValues(o))}

InitMap ==
    /\ cfg = DefaultConfig
    /\ pc = "inflight"
    /\ op \in MapOps
    /\ arg = ""
    /\ attempt_number = 1
    /\ attempts = 1
    /\ sleeps = <<>>
    /\ warnings = 0
    /\ outcomes = <<>>
    /\ response = None
    /\ result = None
    /\ request_body = None
    /\ env_api_key = TRUE
    /\ api_client = FALSE
    /\ tool = None
    /\ InitConc

\* the first attempt is answered 2xx: the operation maps the body
MapResponse ==
    /\ pc = "inflight"
    /\ \E o \in MapOutcomes(op) :
          /\ outcomes' = Append(outcomes, Tag(o))
          /\ response' = Some(o)
          /\ result' = Some(ClientResult(op, arg, cfg, MakeRequestWithRetry(o)))
    /\ pc' = "done"
    /\ UNCHANGED <<cfg, op, arg, attempt_number, attempts, sleeps, warnings,
                   request_body, servervars, concvars>>

NextMap == MapResponse

SpecMap == InitMap /\ [][NextMap]_vars

(***************************************************************************)
(* Cancellation: the caller abandons the call at one of its two            *)
(* suspension points                                                       *)
(***************************************************************************)
\* a JSON operation is awaited on a client that is idle or whose previous
\* call was cancelled
NewCall(o, a) ==
    /\ pc \in {"idle", "cancelled"}
    /\ o \in JsonOps
    /\ a \in Args(o)
    /\ \E body \in RequestBodies(o) : StartRequest(o, a, body)
    /\ tool' = None
    /\ UNCHANGED <<env_api_key, api_client, concvars>>

\* CancelledError is raised at `await self._client.get/post(...)`: tenacity
\* records it like any exception of the attempt and applies its policy; when
\* the policy does not retry, the exception goes through the operation's
\* except clauses
CancelInFlight ==
    /\ pc = "inflight"
    /\ op \in JsonOps
    /\ LET o == CancelledOutcome
       IN  /\ outcomes' = Append(outcomes, Tag(o))
           /\ response' = Some(o)
           /\ IF WillRetry(cfg, attempt_number, o)
              THEN /\ pc' = "sleeping"
                   /\ warnings' = BeforeSleepLog(warnings)
                   /\ sleeps' = Append(sleeps, WaitExponential(cfg, attempt_number))
                   /\ UNCHANGED result
              ELSE /\ pc' = "cancelled"
                   /\ result' = Some(ClientResult(op, arg, cfg, MakeRequestWithRetry(o)))
                   /\ UNCHANGED <<warnings, sleeps>>
    /\ UNCHANGED <<cfg, op, arg, attempt_number, attempts, request_body,
                   servervars, concvars>>

\* CancelledError is raised at tenacity's `await self.sleep(...)`, outside
\* any attempt: it leaves the retry loop and goes through the operation's
\* except clauses
CancelSleep ==
    /\ pc = "sleeping"
    /\ op \in JsonOps
    /\ pc' = "cancelled"
    /\ result' = Some(ClientResult(op, arg, cfg,
                                   Raise(Exc("CancelledError", 0, "", ""))))
    /\ UNCHANGED <<cfg, op, arg, attempt_number, attempts, sleeps, warnings,
                   outcomes, response, request_body, servervars, concvars>>

NextCancel ==
    \/ \E o \in JsonOps : \E a \in Args(o) : NewCall(o, a)
    \/ Retry
    \/ WakeUp
    \/ Respond
    \/ CancelInFlight
    \/ CancelSleep

SpecCancel == Init /\ [][NextCancel]_vars

(***************************************************************************)
(* Two logical calls interleaved on one client instance                    *)
(***************************************************************************)
\* the state of one logical call that the client and server frames keep
callvars ==
    <<pc, op, arg, attempt_number, attempts, sleeps, warnings, outcomes,
      response, result, request_body>>

\* what the upstream does to an attempt, by the class the retry policy sees:
\* a 2xx, a retryable status, a fatal status, a timeout
PairOutcomes ==
    {ResponseOutcome(200, "", WrongShape),
     ResponseOutcome(503, "Service Unavailable", NotJson),
     ResponseOutcome(404, "Service Unavailable", NotJson),
     TimeoutOutcome("")}

\* an attempt counter that both calls on the client would share
SharedAttemptNumber(c) ==
    calls[1].attempt_number + calls[2].attempt_number

\* retry_state.attempt_number of call c: _request is defined and decorated
\* anew inside every invocation of _make_request_with_retry
AttemptNumberOf(c) == calls[c].attempt_number

PairFrame == UNCHANGED <<cfg, callvars, servervars, singleton, instances, tasks>>

\* call c issues its first request
PairStart(c) ==
    /\ calls[c].pc = "idle"
    /\ calls' = [calls EXCEPT ![c] =
                    [pc |-> "inflight", attempt_number |-> 1, attempts |-> 1,
                     sleeps |-> <<>>, outcomes |-> <<>>]]
    /\ PairFrame

\* an attempt of call c fails in a retryable way with attempts left
PairRetry(c) ==
    /\ calls[c].pc = "inflight"
    /\ \E o \in PairOutcomes :
          /\ WillRetry(cfg, AttemptNumberOf(c), o)
          /\ calls' = [calls EXCEPT
                          ![c].pc = "sleeping",
                          ![c].outcomes = Append(@, Tag(o)),
                          ![c].sleeps =
                              Append(@, WaitExponential(cfg, AttemptNumberOf(c)))]
    /\ PairFrame

\* the sleep of call c is over: its _request() is called again
PairWakeUp(c) ==
    /\ calls[c].pc = "sleeping"
    /\ calls' = [calls EXCEPT ![c].pc = "inflight",
                              ![c].attempt_number = @ + 1,
                              ![c].attempts = @ + 1]
    /\ PairFrame

\* an attempt of call c ends the call
PairRespond(c) ==
    /\ calls[c].pc = "inflight"
    /\ \E o \in PairOutcomes :
          /\ ~WillRetry(cfg, AttemptNumberOf(c), o)
          /\ calls' = [calls EXCEPT ![c].pc = "done",
                                    ![c].outcomes = Append(@, Tag(o))]
    /\ PairFrame

NextPair ==
    \/ \E c \in CallIds : PairStart(c)
    \/ \E c \in CallIds : PairRetry(c)
    \/ \E c \in CallIds : PairWakeUp(c)
    \/ \E c \in CallIds : PairRespond(c)

SpecPair == Init /\ [][NextPair]_vars

(***************************************************************************)
(* Concurrent coroutines on the client singleton of server.py.  asyncio    *)
(* runs one coroutine at a time and switches only at an await that         *)
(* suspends: get_api_client() has none, reset_api_client() has one, the    *)
(* close() of the client.                                                  *)
(***************************************************************************)
\* HeyGenApiClient instances created in one run of the model
MaxClients == 3

\* a lookup that never finds the existing singleton
SingletonUnsetAlways(s) == TRUE

\* `if _api_client is not None: return _api_client` does not return
SingletonUnset(s) == s = None

TaskFrame == UNCHANGED <<cfg, callvars, servervars, calls>>

\* a tool coroutine t runs `client = await get_api_client()`
GetApiClient(t) ==
    /\ tasks[t].pc = "idle"
    /\ IF ~SingletonUnset(singleton)
       THEN /\ tasks' = [tasks EXCEPT ![t] = [pc |-> "holding", client |-> singleton]]
            /\ UNCHANGED <<singleton, instances>>
       ELSE IF ~env_api_key
       THEN /\ tasks' = [tasks EXCEPT ![t] = [pc |-> "failed", client |-> None]]
            /\ UNCHANGED <<singleton, instances>>
       ELSE /\ Len(instances) < MaxClients
            /\ instances' = Append(instances, "open")
            /\ singleton' = Some(Len(instances) + 1)
            /\ tasks' = [tasks EXCEPT
                            ![t] = [pc |-> "holding",
                                    client |-> Some(Len(instances) + 1)]]
    /\ TaskFrame

\* the tool coroutine t returns its Result, with or without a client
TaskReturn(t) ==
    /\ tasks[t].pc \in {"holding", "failed"}
    /\ tasks' = [tasks EXCEPT ![t] = IdleTask]
    /\ UNCHANGED <<singleton, instances>>
    /\ TaskFrame

\* coroutine t runs reset_api_client() up to `await _api_client.close()`:
\* aclose() of an open httpx client marks it closed and awaits the close of
\* its transport; on a client that is already closed it does nothing
ResetBegin(t) ==
    /\ tasks[t].pc = "idle"
    /\ singleton # None
    /\ LET c == singleton[1]
       IN  IF instances[c] = "open"
           THEN /\ instances' = [instances EXCEPT ![c] = "closing"]
                /\ tasks' = [tasks EXCEPT ![t] = [pc |-> "closing", client |-> Some(c)]]
           ELSE /\ tasks' = [tasks EXCEPT ![t] = [pc |-> "awaiting", client |-> Some(c)]]
                /\ UNCHANGED instances
    /\ UNCHANGED singleton
    /\ TaskFrame

\* the close() that t awaits returns: `_api_client = None`
ResetEnd(t) ==
    /\ tasks[t].pc \in {"closing", "awaiting"}
    /\ instances' = IF tasks[t].pc = "closing"
                    THEN [instances EXCEPT ![tasks[t].client[1]] = "closed"]
                    ELSE instances
    /\ singleton' = None
    /\ tasks' = [tasks EXCEPT ![t] = IdleTask]
    /\ TaskFrame

NextServer ==
    \/ \E t \in TaskIds : GetApiClient(t)
    \/ \E t \in TaskIds : TaskReturn(t)
    \/ \E t \in TaskIds : ResetBegin(t)
    \/ \E t \in TaskIds : ResetEnd(t)

SpecServer == InitTool /\ [][NextServer]_vars

(***************************************************************************)
(* Vocabulary of the properties                                            *)
(***************************************************************************)
\* the Result's error is a non-empty string
ErrorPopulated(r) == r.error # None /\ r.error[1] # ""

\* at least one data field of the Result is set
DataPopulated(r) == \E f \in DataFields(r) : r[f] # None

Done == pc = "done"

TheResult == result[1]

\* every attempt so far met the same upstream outcome
AllOutcomes(kind, status) ==
    /\ Len(outcomes) >= 1
    /\ \A i \in 1..Len(outcomes) : outcomes[i] = [kind |-> kind, status |-> status]

\* the latest attempt was answered 2xx with a schema-valid JSON body
GotValidBody ==
    /\ response # None
    /\ response[1].kind = "response"
    /\ Is2xx(response[1].status)
    /\ response[1].body.json
    /\ response[1].body.typed

TheBody == response[1].body

StrictlyIncreasingUntil(s, cap) ==
    \A i \in 1..(Len(s) - 1) : s[i] < s[i + 1] \/ (s[i] = cap /\ s[i + 1] = cap)

(***************************************************************************)
(* Properties                                                              *)
(***************************************************************************)

\* C1: every Result a client operation returns has exactly one side
\* populated: either error is a non-empty string and no data field is set,
\* or error is unset and at least one data field is set.
C1_ExactlyOneSidePopulated ==
    Done => \/ ErrorPopulated(TheResult) /\ ~DataPopulated(TheResult)
            \/ TheResult.error = None /\ DataPopulated(TheResult)

\* C2 (as claimed): a call through _make_request_with_retry never issues
\* more HTTP attempts than max_retries, for every max_retries including 0.
C2_AttemptsWithinMaxRetries ==
    op \in JsonOps => attempts <= cfg.max_retries

\* C2 (amended): a call through _make_request_with_retry never issues more
\* HTTP attempts than max_retries, except that it always issues the first
\* one: attempts <= max(1, max_retries).
C2_AttemptsWithinMaxRetriesOrOne ==
    op \in JsonOps => attempts <= (IF cfg.max_retries >= 1 THEN cfg.max_retries ELSE 1)

\* a call that used up all its attempts on retryable failures
C2_Witness ==
    /\ Done
    /\ op \in JsonOps
    /\ cfg.max_retries >= 2
    /\ attempts = cfg.max_retries
    /\ AllOutcomes("response", 503)

\* C3: with the default configuration, a call answered 503, 503, 503 and
\* then 200 is still running after the third 503, ends in success with the
\* data of the 200 body, and slept strictly increasing (then capped) delays.
C3_ThreeRetriesThenSuccess ==
    (/\ cfg = DefaultConfig
     /\ op \in JsonOps
     /\ Len(outcomes) >= 3
     /\ \A i \in 1..3 : outcomes[i] = [kind |-> "response", status |-> 503])
    => /\ Len(outcomes) = 3 => ~Done
       /\ (Done /\ Len(outcomes) = 4 /\ GotValidBody /\ TheBody.data # None)
            => /\ TheResult.error = None
               /\ Len(sleeps) = 3
               /\ StrictlyIncreasingUntil(sleeps, cfg.retry_max_wait)

\* C4: a call answered 500 on every attempt up to the configured maximum
\* returns an error saying the retries were exhausted ("Request failed after
\* N retries"), not the message of a single HTTP error.
C4_ExhaustedRetriesMessage ==
    (Done /\ op \in JsonOps /\ attempts = cfg.max_retries
          /\ AllOutcomes("response", 500))
    => /\ ErrorPopulated(TheResult)
       /\ Contains(TheResult.error[1],
                   "Request failed after " \o ToString(cfg.max_retries) \o " retries")

\* C5: a call whose first attempt is answered 404 returns an error Result
\* after exactly one HTTP attempt, with no back-off sleep and no retry
\* warning before the Result.
C5_NotFoundIsImmediate ==
    (Len(outcomes) >= 1 /\ outcomes[1] = [kind |-> "response", status |-> 404])
    => /\ Done
       /\ attempts = 1
       /\ Len(outcomes) = 1
       /\ sleeps = <<>>
       /\ warnings = 0
       /\ ErrorPopulated(TheResult)
       /\ ~DataPopulated(TheResult)

\* a 404 on the first attempt of a call that had retries available
C5_Witness ==
    /\ Done
    /\ op \in JsonOps
    /\ cfg.max_retries >= 2
    /\ outcomes = <<[kind |-> "response", status |-> 404]>>

\* C6: for every operation routed through _make_request, a call whose every
\* attempt up to the maximum times out returns an error whose message
\* speaks of a timeout or of exhausted retries.
C6_TimeoutIsReported ==
    (Done /\ op \in JsonOps /\ attempts = cfg.max_retries
          /\ AllOutcomes("timeout", 0))
    => /\ ErrorPopulated(TheResult)
       /\ \/ Contains(TheResult.error[1], "timed out")
          \/ Contains(TheResult.error[1], "timeout")
          \/ Contains(TheResult.error[1], "retries")

\* C7: for every operation, a 2xx body with a non-empty error string and no
\* data yields a Result whose error is exactly that string.
C7_UpstreamErrorVerbatim ==
    (Done /\ GotValidBody /\ TheBody.data = None /\ Truthy(TheBody.error))
    => TheResult.error = TheBody.error

\* C8: for every operation with a designated data field, a 2xx body with
\* neither data nor error yields a Result whose error is that operation's
\* configured fallback message, with no data field set.
C8_FallbackMessage ==
    (Done /\ op \notin IdOps /\ GotValidBody
          /\ TheBody.data = None /\ TheBody.error = None)
    => /\ ErrorMsg(op) # None
       /\ TheResult.error = ErrorMsg(op)
       /\ ~DataPopulated(TheResult)

\* C9 (as claimed): for every integer remaining_quota V of a 2xx body,
\* negative ones included, error is unset and remaining_credits is
\* floor(V / 60).
C9_QuotaFloor ==
    (Done /\ op = "get_remaining_credits" /\ GotValidBody /\ TheBody.data # None)
    => LET V == TheBody.data[1].remaining_quota
           q == TheResult.remaining_credits
       IN  /\ TheResult.error = None
           /\ q # None
           /\ 60 * q[1] <= V
           /\ V < 60 * (q[1] + 1)

\* C9 (amended): error is unset and remaining_credits is V / 60 truncated
\* toward zero: floor(V / 60) for V >= 0, ceil(V / 60) for V < 0.
C9_QuotaTruncatedTowardZero ==
    (Done /\ op = "get_remaining_credits" /\ GotValidBody /\ TheBody.data # None)
    => LET V == TheBody.data[1].remaining_quota
           q == TheResult.remaining_credits
       IN  /\ TheResult.error = None
           /\ q # None
           /\ V >= 0 => (60 * q[1] <= V /\ V < 60 * (q[1] + 1))
           /\ V < 0  => (60 * (q[1] - 1) < V /\ V <= 60 * q[1])

\* a negative quota that is not a multiple of 60 has been mapped
C9_Witness ==
    /\ Done
    /\ op = "get_remaining_credits"
    /\ GotValidBody
    /\ TheBody.data # None
    /\ TheBody.data[1].remaining_quota < -60
    /\ TheBody.data[1].remaining_quota % 60 # 0
    /\ TheResult.remaining_credits # None

\* C10: for a 2xx body listing N voices, the Result's voices list is the
\* first min(N, 100) voices of the upstream list, in upstream order.
C10_VoicesPrefix ==
    (Done /\ op = "get_voices" /\ GotValidBody /\ TheBody.data # None)
    => LET L == TheBody.data[1].voices
           n == IF Len(L) <= 100 THEN Len(L) ELSE 100
       IN  /\ TheResult.error = None
           /\ TheResult.voices = Some([i \in 1..n |-> L[i]])

\* the mapped voices of a non-empty upstream list are its first min(N, 100)
\* entries, in upstream order
VoicesPrefixWhenNonEmpty ==
    (Done /\ op = "get_voices" /\ GotValidBody /\ TheBody.data # None
          /\ Len(TheBody.data[1].voices) >= 1)
    => LET L == TheBody.data[1].voices
           n == IF Len(L) <= 100 THEN Len(L) ELSE 100
       IN  /\ TheResult.error = None
           /\ TheResult.voices = Some([i \in 1..n |-> L[i]])

\* C11: upload_asset called with a path at which no file exists returns an
\* error Result whose message names that path, and the call issues no HTTP
\* request: no attempt is counted and no upstream outcome is observed.
C11_MissingFileNamesPath ==
    (op = "upload_asset" /\ arg = MissingPath)
    => /\ Done
       /\ attempts = 0
       /\ outcomes = <<>>
       /\ response = None
       /\ ErrorPopulated(TheResult)
       /\ Contains(TheResult.error[1], MissingPath)
       /\ ~DataPopulated(TheResult)

\* an upload of a missing file has returned, on a client that could retry
C11_Witness ==
    /\ Done
    /\ op = "upload_asset"
    /\ arg = MissingPath
    /\ cfg.max_retries >= 2
    /\ TheResult.error = Some("File not found: /media/missing.png")

\* C12: when an attempt is answered with a non-2xx status outside the
\* retryable set, the call makes no further attempt, and the error Result
\* carries that status code and no more than the first 200 characters of
\* the response body, however long the body is.
C12_FatalStatusExcerpt ==
    (/\ response # None
     /\ response[1].kind = "response"
     /\ ~Is2xx(response[1].status)
     /\ response[1].status \notin {408, 429, 500, 502, 503, 504})
    => /\ Done
       /\ ErrorPopulated(TheResult)
       /\ Contains(TheResult.error[1], ToString(response[1].status))
       /\ Len(response[1].text) > 200
            => ~Contains(TheResult.error[1], Prefix(response[1].text, 201))

\* C13: upload_asset applies the retry policy of the JSON calls: an upload
\* whose first attempt is answered with a retryable status, or times out,
\* while attempts remain is not over after that attempt; it is attempted
\* again after a back-off sleep.
C13_UploadRetries ==
    (/\ op = "upload_asset"
     /\ cfg.max_retries >= 2
     /\ Len(outcomes) = 1
     /\ \/ outcomes[1].kind = "timeout"
        \/ /\ outcomes[1].kind = "response"
           /\ outcomes[1].status \in {408, 429, 500, 502, 503, 504})
    => /\ ~Done
       /\ Len(sleeps) = 1

\* the call ended on one of the expected failures: a timeout, a network
\* error, a non-2xx status (fatal, or retryable with the attempts used up),
\* a 2xx body that is not JSON or fails schema validation, or a body whose
\* transformation raises
ExpectedFailure ==
    /\ response # None
    /\ \/ response[1].kind \in {"timeout", "neterror"}
       \/ /\ response[1].kind = "response"
          /\ \/ ~Is2xx(response[1].status)
             \/ ~response[1].body.json
             \/ ~response[1].body.typed
             \/ /\ response[1].body.data # None
                /\ TransformRaises(op, response[1].body.data[1])

\* C14: no public client operation raises to its caller for an expected
\* failure: every finished call has returned a Result object, and after
\* each expected failure that Result has a populated error.
C14_NoExpectedFailureRaises ==
    Done => /\ "error" \in DOMAIN TheResult
            /\ ExpectedFailure => ErrorPopulated(TheResult)

\* a transformation raised inside _handle_api_request and the call returned
C14_Witness ==
    /\ Done
    /\ op = "generate_avatar_video"
    /\ GotValidBody
    /\ TheBody.data # None
    /\ TransformRaises(op, TheBody.data[1])
    /\ "error" \in DOMAIN TheResult
    /\ ErrorPopulated(TheResult)

\* the tool call being served
TheCall == tool[1]

\* C15: for every tool action with a required parameter, a call with that
\* parameter absent or empty returns an error Result whose message names
\* the missing parameter, and the call issues no HTTP request.
C15_MissingParameterNamed ==
    (tool # None /\ MissingParam(TheCall) # None)
    => /\ Done
       /\ attempts = 0
       /\ outcomes = <<>>
       /\ ErrorPopulated(TheResult)
       /\ Contains(TheResult.error[1], MissingParam(TheCall)[1])

C17_BodyOmitsNulls ==
    (op = "generate_avatar_video" /\ request_body # None)
    => \A i \in 1..Len(request_body[1].video_inputs) :
          LET scene == request_body[1].video_inputs[i]
          IN  "background" \in DOMAIN scene
                => /\ scene.background # None
                   /\ \A k \in DOMAIN scene.background[1] :
                         scene.background[1][k] # None

\* the outcome is a retryable one: a status of the retryable set or a timeout
RetryableOutcome(oc) ==
    \/ oc.kind = "timeout"
    \/ oc.kind = "response" /\ oc.status \in {408, 429, 500, 502, 503, 504}

\* attempt i of the call is, or will be, followed by another attempt
FollowedByAttempt(i) == ~(i = Len(outcomes) /\ Done)

\* C18: in a call through _make_request_with_retry, the outcome of attempt
\* i triggers another attempt if and only if attempts remain (i is below
\* max_retries) and the outcome is a retryable status or a timeout; any
\* other status and any non-timeout network error end the call; and a call
\* that times out once and is then answered 2xx with usable data returns a
\* success Result after one back-off sleep.
C18_RetryIffRetryable ==
    op \in JsonOps
    => /\ \A i \in 1..Len(outcomes) :
             FollowedByAttempt(i)
               <=> (i < cfg.max_retries /\ RetryableOutcome(outcomes[i]))
       /\ (/\ Done
           /\ Len(outcomes) = 2
           /\ outcomes[1].kind = "timeout"
           /\ GotValidBody
           /\ ~Truthy(TheBody.error)
           /\ DataTruthy(op, TheBody.data)
           /\ ~TransformRaises(op, TheBody.data[1]))
          => /\ TheResult.error = None
             /\ attempts = 2
             /\ Len(sleeps) = 1

\* a call timed out once, was retried, and returned the data of the 2xx
C18_Witness ==
    /\ Done
    /\ op \in JsonOps
    /\ Len(outcomes) = 2
    /\ outcomes[1].kind = "timeout"
    /\ outcomes[2] = [kind |-> "response", status |-> 200]
    /\ TheResult.error = None
    /\ DataPopulated(TheResult)

\* the k-th back-off delay of a call as the claim computes it, k counted
\* from 0: min(max_wait, 1 * 2^k), raised to at least min_wait
ClaimedDelay(c, k) ==
    Max(c.retry_min_wait, Min(c.retry_max_wait, 1 * 2 ^ k))

NeverDecreasing(s) == \A k \in 1..(Len(s) - 1) : s[k] <= s[k + 1]

\* C19 (as claimed): every back-off delay of a call equals min(max_wait,
\* multiplier * 2^attempt) raised to at least min_wait, so for every client
\* configuration each delay d satisfies min_wait <= d <= max_wait, and the
\* delays of one call never decrease.
C19_DelayWithinBounds ==
    op \in JsonOps
    => /\ \A k \in 1..Len(sleeps) :
             /\ sleeps[k] = ClaimedDelay(cfg, k - 1)
             /\ cfg.retry_min_wait <= sleeps[k]
             /\ sleeps[k] <= cfg.retry_max_wait
       /\ NeverDecreasing(sleeps)

\* C19 (amended): every back-off delay equals min(max_wait, 2^k) raised to
\* at least min_wait, for the k-th delay counted from 0; each delay is at
\* least min_wait, it is at most max_wait in every configuration with
\* min_wait <= max_wait and equals min_wait otherwise, and the delays of
\* one call never decrease.
C19_DelayWithinOrderedBounds ==
    op \in JsonOps
    => /\ \A k \in 1..Len(sleeps) :
             /\ sleeps[k] = ClaimedDelay(cfg, k - 1)
             /\ cfg.retry_min_wait <= sleeps[k]
             /\ cfg.retry_min_wait <= cfg.retry_max_wait
                  => sleeps[k] <= cfg.retry_max_wait
             /\ cfg.retry_min_wait > cfg.retry_max_wait
                  => sleeps[k] = cfg.retry_min_wait
       /\ NeverDecreasing(sleeps)

\* a call slept twice on a client whose floor is above its cap
C19_Witness ==
    /\ op \in JsonOps
    /\ cfg.retry_min_wait > cfg.retry_max_wait
    /\ Len(sleeps) = 2
    /\ sleeps[1] = cfg.retry_min_wait
    /\ sleeps[2] = cfg.retry_min_wait

\* the outcome of the latest attempt of the call
LastOutcome == outcomes[Len(outcomes)]

\* the call is under way: an attempt is in flight or a back-off sleep runs
Pending == pc \in {"inflight", "sleeping"}

\* terminal states of a call through _make_request_with_retry
Success ==
    Done /\ LastOutcome.kind = "response" /\ Is2xx(LastOutcome.status)

ExhaustedFailure ==
    Done /\ RetryableOutcome(LastOutcome) /\ attempts >= cfg.max_retries

Fatal ==
    /\ Done
    /\ ~(LastOutcome.kind = "response" /\ Is2xx(LastOutcome.status))
    /\ ~RetryableOutcome(LastOutcome)

ExactlyOneTerminal ==
    Cardinality({t \in {"Success", "Fatal", "ExhaustedFailure"} :
                    CASE t = "Success"          -> Success
                      [] t = "Fatal"            -> Fatal
                      [] t = "ExhaustedFailure" -> ExhaustedFailure}) = 1

\* the step leaves the finished call behind instead of continuing it
FreshCall == outcomes' = <<>> /\ sleeps' = <<>> /\ attempts' <= 1

\* C20: provided every HTTP attempt eventually returns a response or fails,
\* every call through _make_request_with_retry eventually ends; when it has
\* ended it is in exactly one of the terminal states Success, Fatal and
\* ExhaustedFailure; and once it has ended no further attempt or sleep
\* occurs for that call.
C20_CallTerminates ==
    /\ [](Done /\ op \in JsonOps => ExactlyOneTerminal)
    /\ (Pending /\ op \in JsonOps) ~> (Done /\ op \in JsonOps)
    /\ [][Done /\ op \in JsonOps
            => \/ FreshCall
               \/ /\ attempts' = attempts
                  /\ sleeps' = sleeps
                  /\ outcomes' = outcomes
                  /\ pc' = "done"]_vars

\* a call went through two back-off sleeps and ended with its attempts
\* exhausted
C20_Witness ==
    /\ op \in JsonOps
    /\ ExhaustedFailure
    /\ ~Success
    /\ ~Fatal
    /\ Len(sleeps) = 2
    /\ attempts = 3

\* HTTP attempts of the call that were issued and have not produced their
\* outcome yet
InFlight == attempts - Len(outcomes)

\* C21: within one call through _make_request_with_retry at most one HTTP
\* attempt is in flight at any time, and attempt k+1 is issued only after
\* attempt k has produced its outcome and the back-off sleep that follows
\* it has finished.
C21_AttemptsSequential ==
    /\ [](op \in JsonOps
          => /\ InFlight \in {0, 1}
             /\ pc = "inflight" <=> InFlight = 1
             /\ pc = "sleeping" => Len(sleeps) = Len(outcomes))
    /\ [][(op \in JsonOps /\ attempts' > attempts /\ outcomes' # <<>>)
            => /\ pc = "sleeping"
               /\ attempts' = attempts + 1
               /\ Len(outcomes) = attempts
               /\ Len(sleeps) = attempts
               /\ outcomes' = outcomes
               /\ sleeps' = sleeps]_vars

\* the third attempt of a call is in flight after two outcomes and two sleeps
C21_Witness ==
    /\ op \in JsonOps
    /\ pc = "inflight"
    /\ attempts = 3
    /\ Len(outcomes) = 2
    /\ Len(sleeps) = 2

\* call c used up the attempts its own configuration gives it
OwnAttemptsExhausted(c) == calls[c].attempts >= cfg.max_retries

\* the retry state of call c is what c's own outcomes make it: every outcome
\* but the last was retryable, every delay is the one of its own position,
\* and the call stopped on a retryable outcome only with its own attempts
\* used up
OwnRetryState(c) ==
    LET st == calls[c]
    IN  /\ st.attempts <= (IF cfg.max_retries >= 1 THEN cfg.max_retries ELSE 1)
        /\ \A k \in 1..Len(st.sleeps) :
              /\ RetryableOutcome(st.outcomes[k])
              /\ st.sleeps[k] = ClaimedDelay(cfg, k - 1)
        /\ (st.pc = "done" /\ RetryableOutcome(st.outcomes[Len(st.outcomes)]))
              => OwnAttemptsExhausted(c)

\* C22: two logical calls running concurrently on the same client instance
\* have independent retry state: under any interleaving a step of one call
\* leaves the other call's attempts, outcomes and delays as they were, and
\* the attempts each call gets and the delays it sleeps are those of its own
\* outcomes alone.
C22_CallsIndependent ==
    /\ [](\A c \in CallIds : OwnRetryState(c))
    /\ [][\A c \in CallIds :
             calls'[c] # calls[c]
             => \A d \in CallIds \ {c} : calls'[d] = calls[d]]_vars

\* one call ended fatally on its first attempt while the other is on its
\* third attempt after two retryable failures
C22_Witness ==
    /\ calls[1].pc = "done"
    /\ calls[1].attempts = 1
    /\ ~RetryableOutcome(calls[1].outcomes[1])
    /\ calls[2].pc = "inflight"
    /\ calls[2].attempts = 3
    /\ Len(calls[2].sleeps) = 2

\* a step that adds a sleep to the call adds one sleep and one warning, after
\* an attempt that was in flight
SleepIsWarned ==
    (sleeps' # sleeps /\ sleeps' # <<>>)
    => /\ Len(sleeps') = Len(sleeps) + 1
       /\ warnings' = warnings + 1
       /\ pc = "inflight"
       /\ pc' = "sleeping"

\* the step that ends the call adds neither a sleep nor a warning
FinalAttemptIsQuiet ==
    (pc = "inflight" /\ pc' = "done")
    => (sleeps' = sleeps /\ warnings' = warnings)

\* C23: a call through _make_request_with_retry that has made k HTTP
\* attempts has slept k-1 times once attempt k is in flight or has ended the
\* call; every sleep comes with exactly one warning log emitted just before
\* it; and the final attempt, also the one that exhausts the retries, is
\* followed by no sleep and no warning.
C23_SleepsAndWarnings ==
    /\ [](op \in JsonOps
          => /\ warnings = Len(sleeps)
             /\ pc \in {"inflight", "done"} => Len(sleeps) = attempts - 1
             /\ pc = "sleeping" => Len(sleeps) = attempts)
    /\ [][(op \in JsonOps) => (SleepIsWarned /\ FinalAttemptIsQuiet)]_vars

\* a call ended on its third attempt with the retries exhausted, after two
\* sleeps and two warnings
C23_Witness ==
    /\ op \in JsonOps
    /\ Done
    /\ attempts = 3
    /\ cfg.max_retries = 3
    /\ RetryableOutcome(outcomes[3])
    /\ Len(sleeps) = 2
    /\ warnings = 2

\* the latest 2xx body carries a non-empty data field that the operation can
\* transform together with a non-empty error string
BodyWithDataAndError ==
    /\ GotValidBody
    /\ Truthy(TheBody.error)
    /\ DataTruthy(op, TheBody.data)
    /\ op \in HandledOps => ~TransformRaises(op, TheBody.data[1])

Cancelled == pc = "cancelled"

\* the call ended with the CancelledError raised to its caller
CancellationPropagates ==
    /\ result # None
    /\ "unhandled" \in DOMAIN TheResult
    /\ TheResult.unhandled.type = "CancelledError"

\* the next thing the client does after a cancellation is the first attempt
\* of another call, under the configuration it always had
OnlyAFreshCallFollows ==
    Cancelled => (pc' = "inflight" /\ attempts' = 1 /\ outcomes' = <<>>
                   /\ sleeps' = <<>> /\ cfg' = cfg)

\* C25: when the caller cancels a call through _make_request_with_retry
\* while an HTTP attempt is in flight or a back-off sleep is pending, the
\* call issues no further HTTP attempt, the cancellation reaches the caller
\* as CancelledError and not as an error Result, and the client keeps its
\* configuration and goes on serving other calls.
C25_CancellationAbandonsCall ==
    /\ [](Cancelled
          => /\ CancellationPropagates
             /\ \E o \in JsonOps : \E a \in Args(o) : ENABLED NewCall(o, a))
    /\ [][OnlyAFreshCallFollows]_vars
    /\ [][cfg' = cfg]_vars

\* a call was cancelled during its second back-off sleep
C25_Witness ==
    /\ Cancelled
    /\ op \in JsonOps
    /\ attempts = 2
    /\ Len(sleeps) = 2
    /\ CancellationPropagates

\* the required keys of a scene, in the order the claim gives them
RequiredSceneFields == <<"avatar_id", "input_text", "voice_id">>

SceneFieldPath(f) == IF f = "avatar_id" THEN "character.avatar_id" ELSE "voice." \o f

SceneLacks(scene) == {k \in 1..3 : scene[RequiredSceneFields[k]] = None}

InvalidSceneIndexes(scenes) == {i \in 1..Len(scenes) : SceneLacks(scenes[i]) # {}}

Least(S) == CHOOSE k \in S : \A j \in S : k <= j

\* the message the claim prescribes for an array with an invalid scene
SceneMessage(scenes) ==
    LET i == Least(InvalidSceneIndexes(scenes))
        f == RequiredSceneFields[Least(SceneLacks(scenes[i]))]
    IN  "Scene " \o ToString(i) \o ": " \o SceneFieldPath(f) \o " is required"

\* the video_inputs_json of the videos generate call being served
TheVideoInputs == tool[1].params.video_inputs_json[1]

ServingVideosGenerate ==
    /\ tool # None
    /\ tool[1].tool = "videos"
    /\ tool[1].action = "generate"
    /\ tool[1].params.video_inputs_json # None

UnusableVideoInputs(json) ==
    \/ json.kind \in {"empty", "invalid", "object"}
    \/ json.kind = "array" /\ Len(json.scenes) = 0
    \/ json.kind = "array" /\ InvalidSceneIndexes(json.scenes) # {}

\* C26: videos(action='generate') validates all scenes before any network
\* call: when video_inputs_json is not valid JSON, not an array, an empty
\* array, or has a scene that lacks character.avatar_id, voice.input_text or
\* voice.voice_id, the result is an error and no HTTP request is issued; for
\* a missing scene field the message names the 1-based index of the first
\* invalid scene and its first missing field in the order avatar_id,
\* input_text, voice_id.
C26_ScenesValidatedFirst ==
    (ServingVideosGenerate /\ UnusableVideoInputs(TheVideoInputs))
    => /\ Done
       /\ attempts = 0
       /\ ErrorPopulated(TheResult)
       /\ (TheVideoInputs.kind = "array" /\ Len(TheVideoInputs.scenes) > 0)
            => TheResult.error = Some(SceneMessage(TheVideoInputs.scenes))

\* coroutine t gets a client from get_api_client() in this step
Obtains(t) == tasks[t].pc = "idle" /\ tasks'[t].pc = "holding"

\* C27: between two resets get_api_client hands the same client instance to
\* every tool call: under any interleaving of concurrent tool calls a
\* HeyGenApiClient is created only while the singleton is unset, one at a
\* time, and it becomes the singleton; while the singleton is set no
\* instance is created and every caller gets the singleton.
C27_OneClientBetweenResets ==
    /\ [][Len(instances') # Len(instances)
            => /\ singleton = None
               /\ Len(instances') = Len(instances) + 1
               /\ singleton' = Some(Len(instances'))]_vars
    /\ [][\A t \in TaskIds :
             Obtains(t)
             => /\ tasks'[t].client = singleton'
                /\ singleton # None => (singleton' = singleton
                                         /\ instances' = instances)]_vars

\* both tool coroutines hold the one client that was created
C27_Witness ==
    /\ Len(instances) = 1
    /\ singleton = Some(1)
    /\ tasks[1] = [pc |-> "holding", client |-> Some(1)]
    /\ tasks[2] = [pc |-> "holding", client |-> Some(1)]

\* no reset_api_client() is under way
NoResetRunning == \A t \in TaskIds : tasks[t].pc \notin {"closing", "awaiting"}

\* coroutine t ends its reset_api_client() in this step
EndsReset(t) == tasks[t].pc \in {"closing", "awaiting"} /\ tasks'[t].pc = "idle"

\* C28: under any interleaving of tool calls with reset_api_client,
\* get_api_client never returns a client whose HTTP transport has been
\* closed or is being closed; and overlapping reset_api_client calls leave
\* the singleton unset with the old client closed.
C28_NoClosedClientReturned ==
    /\ [][\A t \in TaskIds :
             Obtains(t) => instances'[tasks'[t].client[1]] = "open"]_vars
    /\ [][\A t \in TaskIds :
             EndsReset(t)
             => /\ singleton' = None
                /\ NoResetRunning' => instances'[tasks[t].client[1]] = "closed"]_vars

\* the client operation behind the tool call being served
TheToolOp == ClientOp(tool[1].tool, tool[1].action)

\* the id the tool call being served was given
TheIdParam ==
    tool[1].params[IF TheToolOp = "delete_asset" THEN "asset_id" ELSE "folder_id"]

\* C29: for every Result of delete_asset, update_folder, trash_folder and
\* restore_folder and of the tool actions that wrap them, on the
\* missing-parameter and exception paths too, success is true if and only
\* if error is unset; and when success is true the Result carries the id
\* that was passed in.
C29_SuccessIffNoError ==
    (Done /\ tool # None /\ TheToolOp \in IdOps)
    => /\ TheResult.success <=> TheResult.error = None
       /\ TheResult.success
            => /\ TheIdParam # None
               /\ TheResult[IdField(TheToolOp)] = TheIdParam

\* a folder was renamed: success with the folder id that was passed in
C29_Witness ==
    /\ Done
    /\ tool # None
    /\ TheToolOp = "update_folder"
    /\ attempts = 1
    /\ TheResult.success
    /\ TheResult.error = None
    /\ TheResult.folder_id = Some("id-1")

\* C30: when HEYGEN_API_KEY is unset or empty, every tool call, whatever
\* its action and parameters, returns a Result with a populated error,
\* raises nothing, creates no client (the singleton stays unset) and issues
\* no HTTP request.
C30_NoKeyNoClient ==
    ~env_api_key
    => /\ ~api_client
       /\ attempts = 0
       /\ pc \in {"idle", "done"}
       /\ tool # None
            => /\ Done
               /\ "unhandled" \notin DOMAIN TheResult
               /\ ErrorPopulated(TheResult)

\* a videos generate call with usable scenes was answered without a key
C30_Witness ==
    /\ ~env_api_key
    /\ ServingVideosGenerate
    /\ ~UnusableVideoInputs(TheVideoInputs)
    /\ Done
    /\ TheResult.error = Some(ApiKeyMessage)
    /\ ~api_client
    /\ attempts = 0

====
